---- MODULE Spec2Model ----
(***************************************************************************)
(* Model of the Bridge contract (deposit reveal, sweep proof processing)   *)
(* of tbtc-v2.  Every external call of the contract is one atomic action:  *)
(* the EVM reverts all storage writes of a call that fails.  The sweep     *)
(* transaction assembler of the client is a function of its arguments,     *)
(* with a specification of its own (AssemblerSpec).  The two submission    *)
(* functions of the client run one await at a time (ClientSpec).           *)
(*                                                                         *)
(* Hashes (keccak256, hash160, hash256) are modelled as injective          *)
(* encodings of their pre-image.  bytes32(0) / address(0) are 0.           *)
(***************************************************************************)
EXTENDS Integers, Sequences, FiniteSets, TLC

VARIABLES
    isVaultTrusted, \* mapping(address => bool)
    deposits,       \* mapping(uint256 => DepositInfo)
    sweeps,         \* mapping(bytes20 => bytes32)
    now,            \* block.timestamp of the block being executed
    credited,       \* deposit keys that were part of a Bank.increaseBalances call
    assembleCall,   \* the arguments of the call of the assembler
    assembled,      \* <<>>, or the outcome of the call of the assembler
    submitting,     \* <<>>, or the call of submitDepositSweepTransaction
    broadcastLog,   \* the transactions the Bitcoin client has broadcast
    proving,        \* <<>>, or the call of submitDepositSweepProof
    depositSweepProofLog \* the sweep proofs submitted to the Bridge handle

vars ==
    <<isVaultTrusted, deposits, sweeps, now, credited, assembleCall, assembled,
      submitting, broadcastLog, proving, depositSweepProofLog>>

\* The variables of the submission functions of the client.
clientVars == <<submitting, broadcastLog, proving, depositSweepProofLog>>

----------------------------------------------------------------------------
(* Bounds of the model. *)

\* Largest number of inputs of a sweep transaction.
MaxInputs == 2
\* Largest value (satoshi) of a sweep transaction output.
MaxOutputValue == 2

----------------------------------------------------------------------------
(* Fixed universe of addresses, wallets, timestamps and transactions. *)

Owner == "governance"
Callers == {Owner, "anyone"}

\* Non-zero vault addresses; address(0) is 0.
Vaults == {9}
\* 20-byte wallet public key hashes.
Wallets == {1, 2}
\* Ethereum depositor addresses.
Depositors == {11, 12}

\* block.timestamp is a uint256: epoch * 2^32 + secs.  uint32(block.timestamp)
\* keeps the low 32 bits, that is, secs.
Timestamps == { [epoch |-> 0, secs |-> 1],
                [epoch |-> 1, secs |-> 0] }

TimeLeq(a, b) ==
    \/ a.epoch < b.epoch
    \/ a.epoch = b.epoch /\ a.secs <= b.secs

\* uint32(block.timestamp)
Uint32OfTimestamp(t) == t.secs

----------------------------------------------------------------------------
(* Bitcoin primitives (BTCUtils), as far as the Bridge uses them. *)

\* Little-endian bytes to unsigned integer: 4 bytes (reverseUint32 of the
\* big-endian reading) and 8 bytes (reverseUint64).
LE4ToUint(b) == b[1] + 256 * (b[2] + 256 * (b[3] + 256 * b[4]))
LE8ToUint(b) ==
    b[1] + 256 * (b[2] + 256 * (b[3] + 256 * (b[4] + 256 * (b[5]
         + 256 * (b[6] + 256 * (b[7] + 256 * b[8]))))))

\* Unsigned integer to n little-endian bytes.
RECURSIVE UintToLE(_, _)
UintToLE(v, n) ==
    IF n = 0 THEN <<>> ELSE <<v % 256>> \o UintToLE(v \div 256, n - 1)

\* hash160 and hash256 of a script, injective and with disjoint ranges.
Hash160(script) == <<"hash160", script>>
Hash256(script) == <<"hash256", script>>

\* A transaction output: 8-byte little-endian value, script kind and the
\* payload (hash) carried by the script.
TxOutput(value, kind, payload) ==
    [valueLE |-> UintToLE(value, 8), kind |-> kind, payload |-> payload]

\* Length in bytes of BTCUtils.extractHash(output): 20 for P2PKH, P2SH and
\* P2WPKH, 32 for P2WSH, 0 (empty) for any other script.
ExtractHashLength(output) ==
    CASE output.kind \in {"P2PKH", "P2SH", "P2WPKH"} -> 20
      [] output.kind = "P2WSH" -> 32
      [] OTHER -> 0

\* BTCUtils.extractValue(output)
ExtractValue(output) == LE8ToUint(output.valueLE)

\* A transaction input: outpoint transaction hash and 4-byte little-endian
\* outpoint index.
TxInput(txHash, index) == [txIdLE |-> txHash, indexLE |-> UintToLE(index, 4)]

\* Transaction hashes (hash256 of the serialized transaction) of the funding
\* transactions and of the sweep transactions of the universe.  A sweep
\* transaction can only spend outputs of transactions hashed before it.
FundingTxHashes == {1, 2}
SweepTxHashes == {3, 4}
TxHashes == FundingTxHashes \cup SweepTxHashes
OutputIndexes == {0, 1}

ZeroAddress == 0
ZeroHash == 0

----------------------------------------------------------------------------
(* Data structures of the Bridge. *)

\* struct RevealInfo.  Only depositor 11 routes deposits to a vault.
RevealInfos ==
    { r \in [fundingOutputIndex : OutputIndexes,
             depositor : Depositors,
             blindingFactor : {5},
             walletPubKeyHash : Wallets,
             refundPubKeyHash : {7},
             refundLocktime : {8},
             vault : {ZeroAddress} \cup Vaults] :
        r.vault = ZeroAddress \/ r.depositor = 11 }

\* struct DepositInfo, with the default (all-zero) value of a storage slot.
EmptyDeposit ==
    [depositor |-> ZeroAddress, amount |-> 0, revealedAt |-> 0,
     vault |-> ZeroAddress, sweptAt |-> 0]

\* struct SweepInfo
SweepInfo(txHash, txOutputValue) ==
    [txHash |-> txHash, txOutputValue |-> txOutputValue]

\* keccak256(abi.encodePacked(txHash, outputIndex)), the key of `deposits`.
DepositKey(txHash, outputIndex) == <<txHash, outputIndex>>

DepositKeys == TxHashes \X OutputIndexes

\* deposits[key] of the storage mapping `deps`: a slot never written holds
\* the default value.
DepositAt(deps, key) ==
    IF key \in DOMAIN deps THEN deps[key] ELSE EmptyDeposit

\* The mapping `deps` with slot `key` set to `info`.
DepositPut(deps, key, info) ==
    [k \in DOMAIN deps \cup {key} |-> IF k = key THEN info ELSE deps[k]]

\* keccak256(abi.encodePacked(txHash, txOutputValue)), the value of `sweeps`.
\* A keccak256 digest is never bytes32(0).
SweepHash(txHash, txOutputValue) ==
    1 + txHash * (MaxOutputValue + 2) + txOutputValue

\* The locking script of a deposit: the fixed opcode template with the
\* pushes taken from the reveal.
ExpectedScript(reveal) ==
    <<reveal.depositor, reveal.blindingFactor, reveal.walletPubKeyHash,
      reveal.refundPubKeyHash, reveal.refundLocktime>>

\* The funding transactions depositors may reveal.  BitcoinTx.Info with its
\* hash256: transaction 1 pays a P2SH deposit of 3 satoshi of depositor 11
\* to wallet 1 and has a second, non-standard output; transaction 2 pays a
\* P2WSH deposit of 1 satoshi of depositor 12 to wallet 2.
FundingTxs ==
    { [hash |-> 1,
       outputs |->
         << TxOutput(3, "P2SH",
              Hash160(<<11, 5, 1, 7, 8>>)),
            TxOutput(2, "NONSTANDARD", <<>>) >>],
      [hash |-> 2,
       outputs |->
         << TxOutput(1, "P2WSH",
              Hash256(<<12, 5, 2, 7, 8>>)) >>] }

\* hash256 of the serialized transaction.
TxHash(tx) == tx.hash

----------------------------------------------------------------------------
(* The contract state handed to the pure models of the functions. *)

State == [isVaultTrusted |-> isVaultTrusted, deposits |-> deposits,
          sweeps |-> sweeps]

\* The outcome of a call is OK or the reason of its failure.  The reasons
\* stand for the revert strings and panics of the contract:
\*   UntrustedVault                "Vault is not trusted"
\*   ScriptHashMismatch            "Wrong 20-byte script hash" / "Wrong
\*                                 32-byte script hash"
\*   UnsupportedScriptHashLength   "Wrong script hash length"
\*   DuplicateReveal               "Deposit already revealed"
\*   MalformedVector               "Invalid input vector provided" / "Invalid
\*                                 output vector provided" / a failed
\*                                 extraction of BTCUtils
\*   InvalidMerkleProof            "Tx merkle proof is not valid for provided
\*                                 header and tx hash"
\*   StaleOrFutureDifficulty       "Not at current or previous difficulty"
\*   InvalidLength                 "Invalid length of the headers chain"
\*   BrokenChain                   "Invalid headers chain"
\*   InsufficientPerHeaderWork     "Insufficient work in a header"
\*   InsufficientAccumulatedWork   "Insufficient accumulated difficulty in
\*                                 header chain"
\*   MultiOutputSweepUnsupported   "Sweep transaction must have a single
\*                                 output"
\*   WalletPubKeyHashLength        "Wallet public key hash should have 20
\*                                 bytes"
\*   InvalidPreviousSweepData      "Invalid previous sweep data"
\*   DepositAlreadySwept           "Deposit already swept"
\*   UnknownInputOrigin            "Unknown input type"
\*   MissingPreviousSweepInput     "Previous sweep output not present in
\*                                 sweep transaction inputs"
\*   ArrayIndexOutOfBounds         Panic(0x32)
\*   NegativeFee, FeeShareExceedsAmount   Panic(0x11), arithmetic underflow
\*   DivisionByZero                Panic(0x12)
OK == "OK"

----------------------------------------------------------------------------
(* setVaultStatus *)

\* setVaultStatus(vault, isTrusted) called by `caller`, onlyOwner: the
\* isVaultTrusted mapping after the call.
setVaultStatus(st, caller, vault, isTrusted) ==
    IF caller # Owner THEN st.isVaultTrusted
    ELSE [st.isVaultTrusted EXCEPT ![vault] = isTrusted]

----------------------------------------------------------------------------
(* revealDeposit *)

\* Variant: every vault is accepted.
AnyVaultAccepted(trusted, vault) == TRUE

\* reveal.vault == address(0) || isVaultTrusted[reveal.vault]
VaultAccepted(trusted, vault) == vault = ZeroAddress \/ trusted[vault]

\* Variant: no script-hash check.
AcceptAnyScriptHash(fundingOutput, expectedScript) == OK

\* The script-hash check of the funding output against the expected script.
ScriptHashCheck(fundingOutput, expectedScript) ==
    IF ExtractHashLength(fundingOutput) = 20
    THEN IF fundingOutput.payload = Hash160(expectedScript)
         THEN OK ELSE "ScriptHashMismatch"
    ELSE IF ExtractHashLength(fundingOutput) = 32
    THEN IF fundingOutput.payload = Hash256(expectedScript)
         THEN OK ELSE "ScriptHashMismatch"
    ELSE "UnsupportedScriptHashLength"

\* Variant: the record keeps the wallet public key hash of the reveal.
RevealedDepositOfWallet(old, fundingOutput, reveal, timestamp) ==
    [depositor |-> reveal.depositor, amount |-> ExtractValue(fundingOutput),
     revealedAt |-> Uint32OfTimestamp(timestamp), vault |-> reveal.vault,
     sweptAt |-> old.sweptAt, walletPubKeyHash |-> reveal.walletPubKeyHash]

\* The record revealDeposit stores.
RevealedDeposit(old, fundingOutput, reveal, timestamp) ==
    [old EXCEPT !.amount = ExtractValue(fundingOutput),
                !.depositor = reveal.depositor,
                !.revealedAt = Uint32OfTimestamp(timestamp),
                !.vault = reveal.vault]

\* revealDeposit(fundingTx, reveal) at block.timestamp `timestamp`:
\* the outcome and the deposits mapping after the call.
revealDeposit(st, fundingTx, reveal, timestamp) ==
    LET key == DepositKey(TxHash(fundingTx), reveal.fundingOutputIndex)
        fail(reason) == [err |-> reason, key |-> key, deposits |-> st.deposits]
    IN
    IF ~VaultAccepted(st.isVaultTrusted, reveal.vault)
    THEN fail("UntrustedVault")
    ELSE IF reveal.fundingOutputIndex >= Len(fundingTx.outputs)
    THEN fail("MalformedVector")
    ELSE
      LET fundingOutput == fundingTx.outputs[reveal.fundingOutputIndex + 1]
          check == ScriptHashCheck(fundingOutput, ExpectedScript(reveal))
      IN
      IF check # OK THEN fail(check)
      ELSE IF DepositAt(st.deposits, key).revealedAt # 0
      THEN fail("DuplicateReveal")
      ELSE [err |-> OK, key |-> key,
            deposits |->
              DepositPut(st.deposits, key,
                RevealedDeposit(DepositAt(st.deposits, key), fundingOutput,
                                reveal, timestamp))]

----------------------------------------------------------------------------
(* SPV proof of the sweep transaction *)

\* uint256 error codes of ValidateSPV.validateHeaderChain: the three largest
\* unsigned integers.
MaxUint == 2147483647
ErrBadLength == MaxUint
ErrInvalidChain == MaxUint - 1
ErrLowWork == MaxUint - 2

\* Immutable constructor parameter and the relay's epoch difficulties.
TxProofDifficultyFactor == 6
CurrentEpochDifficulty == 2
PrevEpochDifficulty == 1

\* BitcoinTx.Proof, by what the SPV library computes from it: whether the
\* merkle proof links the transaction hash to the merkle root of the first
\* header, the difficulty of the first header's target, and the result of
\* validateHeaderChain (accumulated difficulty or an error code).
Proofs ==
    [merkleValid : BOOLEAN,
     firstHeaderDiff : {PrevEpochDifficulty, CurrentEpochDifficulty, 3},
     observedDiff : {ErrBadLength, ErrInvalidChain, ErrLowWork, 5, 6, 12}]

ValidProof ==
    [merkleValid |-> TRUE, firstHeaderDiff |-> CurrentEpochDifficulty,
     observedDiff |-> 12]

\* Variant: any accumulated difficulty is enough.
AnyWorkSufficient(observedDiff, requestedDiff) == TRUE

\* observedDiff >= requestedDiff * txProofDifficultyFactor
SufficientWork(observedDiff, requestedDiff) ==
    observedDiff >= requestedDiff * TxProofDifficultyFactor

\* evaluateProofDifficulty(bitcoinHeaders)
evaluateProofDifficulty(proof) ==
    LET currentDiff == CurrentEpochDifficulty
        previousDiff == PrevEpochDifficulty
        firstHeaderDiff == proof.firstHeaderDiff
        requestedDiff == IF firstHeaderDiff = currentDiff THEN currentDiff
                         ELSE previousDiff
        observedDiff == proof.observedDiff
    IN
    IF firstHeaderDiff # currentDiff /\ firstHeaderDiff # previousDiff
    THEN "StaleOrFutureDifficulty"
    ELSE IF observedDiff = ErrBadLength THEN "InvalidLength"
    ELSE IF observedDiff = ErrInvalidChain THEN "BrokenChain"
    ELSE IF observedDiff = ErrLowWork THEN "InsufficientPerHeaderWork"
    ELSE IF ~SufficientWork(observedDiff, requestedDiff)
    THEN "InsufficientAccumulatedWork"
    ELSE OK

\* Variant: the merkle proof is not checked.
SkipMerkleProof(proof) == evaluateProofDifficulty(proof)

\* checkProofFromTxHash(txHash, proof)
checkProofFromTxHash(proof) ==
    IF ~proof.merkleValid THEN "InvalidMerkleProof"
    ELSE evaluateProofDifficulty(proof)

\* validateSweepTxProof(sweepTx, sweepProof)
validateSweepTxProof(sweepTx, sweepProof) ==
    IF ~sweepTx.vinValid THEN "MalformedVector"
    ELSE IF ~sweepTx.voutValid THEN "MalformedVector"
    ELSE checkProofFromTxHash(sweepProof)

----------------------------------------------------------------------------
(* sweep *)

\* Variant: any number of outputs.
AnyOutputsCount(outputsCount) == TRUE

\* The sweep transaction must have a single output.
SingleOutput(outputsCount) == outputsCount = 1

\* processSweepTxOutput(sweepTxOutputVector)
processSweepTxOutput(outputs) ==
    IF ~SingleOutput(Len(outputs))
    THEN [err |-> "MultiOutputSweepUnsupported", walletPubKeyHash |-> 0,
          value |-> 0]
    ELSE IF ExtractHashLength(outputs[1]) # 20
    THEN [err |-> "WalletPubKeyHashLength", walletPubKeyHash |-> 0,
          value |-> 0]
    ELSE [err |-> OK, walletPubKeyHash |-> outputs[1].payload,
          value |-> ExtractValue(outputs[1])]

\* parseTxInputAt(inputVector, inputStartingIndex)
parseTxInputAt(input) ==
    [inputTxHash |-> input.txIdLE, inputTxIndex |-> LE4ToUint(input.indexLE)]

\* Variant: an array with one more entry.
NewLongerArray(n) == [i \in 1..(n + 1) |-> 0]

\* A memory array of n zeros.
NewArray(n) == [i \in 1..n |-> 0]

\* Variant of the test that does not compare the transaction hash.
AnyInputIsPreviousSweep(previousSweepFlag, previousSweep, in) ==
    ~previousSweepFlag

\* The test of the previous-sweep branch: no previous-sweep input was matched
\* yet and the input spends a transaction whose hash is previousSweep.txHash.
IsPreviousSweepInput(previousSweepFlag, previousSweep, in) ==
    ~previousSweepFlag /\ previousSweep.txHash = in.inputTxHash

\* One iteration of the inputs processing loop on the loop state `acc`.
ProcessInput(acc, previousSweep, input, timestamp) ==
    LET in == parseTxInputAt(input)
        key == DepositKey(in.inputTxHash, in.inputTxIndex)
        deposit == DepositAt(acc.deposits, key)
        n == acc.processedDepositsCount
        swept == DepositPut(acc.deposits, key,
                   [deposit EXCEPT !.sweptAt = Uint32OfTimestamp(timestamp)])
    IN
    IF deposit.revealedAt # 0
    THEN IF deposit.sweptAt # 0
         THEN [acc EXCEPT !.err = "DepositAlreadySwept"]
         ELSE IF n >= Len(acc.depositors)
         THEN [acc EXCEPT !.deposits = swept,
                          !.err = "ArrayIndexOutOfBounds"]
         ELSE [acc EXCEPT
                 !.deposits = swept,
                 !.depositors[n + 1] = deposit.depositor,
                 !.depositedAmounts[n + 1] = deposit.amount,
                 !.keys = Append(@, key),
                 !.inputsValue = @ + deposit.amount,
                 !.processedDepositsCount = n + 1]
    ELSE IF IsPreviousSweepInput(acc.previousSweepFlag, previousSweep, in)
    THEN [acc EXCEPT !.inputsValue = @ + previousSweep.txOutputValue,
                     !.previousSweepFlag = TRUE]
    ELSE [acc EXCEPT !.err = "UnknownInputOrigin"]

\* The inputs processing loop from input i on.
RECURSIVE ProcessInputsFrom(_, _, _, _, _)
ProcessInputsFrom(acc, previousSweep, inputs, i, timestamp) ==
    IF i > Len(inputs) \/ acc.err # OK THEN acc
    ELSE ProcessInputsFrom(
           ProcessInput(acc, previousSweep, inputs[i], timestamp),
           previousSweep, inputs, i + 1, timestamp)

\* processSweepTxInputs(sweepTxInputVector, previousSweep) on the deposits
\* mapping `deps`.
processSweepTxInputs(deps, inputs, previousSweep, timestamp) ==
    LET previousSweepFlag == previousSweep.txHash = ZeroHash
        inputsCount == Len(inputs)
        length == IF previousSweepFlag THEN inputsCount ELSE inputsCount - 1
        start == [err |-> OK, deposits |-> deps, inputsValue |-> 0,
                  depositors |-> NewArray(length),
                  depositedAmounts |-> NewArray(length),
                  keys |-> <<>>,
                  processedDepositsCount |-> 0,
                  previousSweepFlag |-> previousSweepFlag]
        end == ProcessInputsFrom(start, previousSweep, inputs, 1, timestamp)
    IN
    IF end.err = OK /\ ~end.previousSweepFlag
    THEN [end EXCEPT !.err = "MissingPreviousSweepInput"]
    ELSE end

\* Variant: subtraction in an unchecked block.
UncheckedSub(a, b) == [ok |-> TRUE, value |-> a - b]

\* Checked subtraction of Solidity 0.8: a - b reverts when b > a.
CheckedSub(a, b) == [ok |-> a >= b, value |-> a - b]

\* Variant: a fee that saturates at zero.
SaturatingFee(sweepTxInputsValue, sweepTxOutputValue) ==
    [ok |-> TRUE,
     value |-> IF sweepTxInputsValue >= sweepTxOutputValue
               THEN sweepTxInputsValue - sweepTxOutputValue ELSE 0]

\* fee = sweepTxInputsValue - sweepTxOutputValue
SweepFee(sweepTxInputsValue, sweepTxOutputValue) ==
    CheckedSub(sweepTxInputsValue, sweepTxOutputValue)

\* Variant: the sweep pointer is never written.
KeepSweepPointer(pointers, walletPubKeyHash, sweepTxHash, sweepTxOutputValue) == pointers

\* Variant: the sweep hash written to the slot of every wallet.
SetEverySweepPointer(pointers, walletPubKeyHash, sweepTxHash, sweepTxOutputValue) ==
    [w \in DOMAIN pointers |-> SweepHash(sweepTxHash, sweepTxOutputValue)]

\* sweeps[walletPubKeyHash] = keccak256(sweepTxHash, sweepTxOutputValue)
SetSweepPointer(pointers, walletPubKeyHash, sweepTxHash, sweepTxOutputValue) ==
    [pointers EXCEPT ![walletPubKeyHash] =
       SweepHash(sweepTxHash, sweepTxOutputValue)]

\* Variant: a failed call that keeps its writes.
KeepWrites(before, written) == written

\* The storage a reverted call leaves behind: the EVM discards every write
\* of the call.
Revert(before, written) == before

\* Variant: every previous sweep data accepted for the stored hash.
AnyPreviousSweepMatches(previousSweepHash, previousSweep) == TRUE

\* keccak256(previousSweep.txHash, previousSweep.txOutputValue) ==
\* previousSweepHash
PreviousSweepMatches(previousSweepHash, previousSweep) ==
    SweepHash(previousSweep.txHash, previousSweep.txOutputValue)
      = previousSweepHash

\* Variant: the caller's previous sweep data used also when the wallet has no
\* pointer.
UseClaimedPreviousSweep(previousSweepHash, previousSweep) == previousSweep

\* resolvedPreviousSweep: the caller's data when the wallet has a pointer,
\* empty data otherwise.
ResolvePreviousSweep(previousSweepHash, previousSweep) ==
    IF previousSweepHash # ZeroHash THEN previousSweep
    ELSE SweepInfo(ZeroHash, 0)

\* Variant: the fee share is not charged.
KeepDepositedAmounts(depositedAmounts, feeShare) == depositedAmounts

\* depositedAmounts after the fee share was taken from every entry.
ReduceByFeeShare(depositedAmounts, feeShare) ==
    [i \in DOMAIN depositedAmounts |->
       CheckedSub(depositedAmounts[i], feeShare).value]

\* sweep(sweepTx, sweepProof, previousSweep) at block.timestamp `timestamp`:
\* the outcome, the storage after the call and the arguments of the
\* Bank.increaseBalances call (empty when the call reverted).
sweep(st, sweepTx, sweepProof, previousSweep, timestamp) ==
    LET sweepTxHash == TxHash(sweepTx)
        proofErr == validateSweepTxProof(sweepTx, sweepProof)
        out == processSweepTxOutput(sweepTx.outputs)
        walletPubKeyHash == out.walletPubKeyHash
        sweepTxOutputValue == out.value
        previousSweepHash == st.sweeps[walletPubKeyHash]
        resolvedPreviousSweep ==
            ResolvePreviousSweep(previousSweepHash, previousSweep)
        in == processSweepTxInputs(st.deposits, sweepTx.inputs,
                                   resolvedPreviousSweep, timestamp)
        fee == SweepFee(in.inputsValue, sweepTxOutputValue)
        count == Len(in.depositedAmounts)
        feeShare == fee.value \div count
        fail(reason, written, marked) ==
            [err |-> reason,
             deposits |-> Revert(st.deposits, written),
             sweeps |-> st.sweeps,
             depositors |-> <<>>, amounts |-> <<>>, keys |-> <<>>,
             txHash |-> sweepTxHash, walletPubKeyHash |-> 0,
             outputValue |-> 0, previousSweep |-> SweepInfo(ZeroHash, 0),
             inputs |-> <<>>, inputsValue |-> 0, marked |-> marked]
    IN
    IF proofErr # OK THEN fail(proofErr, st.deposits, 0)
    ELSE IF out.err # OK THEN fail(out.err, st.deposits, 0)
    ELSE IF previousSweepHash # ZeroHash
            /\ ~PreviousSweepMatches(previousSweepHash, previousSweep)
    THEN fail("InvalidPreviousSweepData", st.deposits, 0)
    ELSE IF in.err # OK
    THEN fail(in.err, in.deposits, in.processedDepositsCount)
    ELSE IF ~fee.ok
    THEN fail("NegativeFee", in.deposits, in.processedDepositsCount)
    ELSE IF count = 0
    THEN fail("DivisionByZero", in.deposits, in.processedDepositsCount)
    ELSE IF \E i \in 1..count :
              ~CheckedSub(in.depositedAmounts[i], feeShare).ok
    THEN fail("FeeShareExceedsAmount", in.deposits, in.processedDepositsCount)
    ELSE [err |-> OK,
          deposits |-> in.deposits,
          sweeps |-> SetSweepPointer(st.sweeps, walletPubKeyHash,
                                     sweepTxHash, sweepTxOutputValue),
          depositors |-> in.depositors,
          amounts |-> ReduceByFeeShare(in.depositedAmounts, feeShare),
          keys |-> in.keys,
          txHash |-> sweepTxHash, walletPubKeyHash |-> walletPubKeyHash,
          outputValue |-> sweepTxOutputValue,
          previousSweep |-> resolvedPreviousSweep,
          inputs |-> [i \in 1..Len(sweepTx.inputs) |->
                        parseTxInputAt(sweepTx.inputs[i])],
          inputsValue |-> in.inputsValue,
          marked |-> in.processedDepositsCount]

----------------------------------------------------------------------------
(* The calls the environment may make. *)

SeqsUpTo(S, n) == UNION { [1..k -> S] : k \in 1..n }

\* Outpoints a sweep transaction with hash h may spend: the funding outputs
\* and the outputs of sweep transactions hashed before it.
InputRefs(h) ==
    { TxInput(g, 0) : g \in FundingTxHashes }
      \cup { TxInput(g, i) : g \in { x \in SweepTxHashes : x < h },
                             i \in OutputIndexes }

\* A sweep transaction (BitcoinTx.Info with its hash256).
SweepTx(h, ins, outs) ==
    [hash |-> h, vinValid |-> TRUE, voutValid |-> TRUE,
     inputs |-> ins, outputs |-> outs]

\* Well-formed sweep transactions with one single-key output.
SweepTxs ==
    UNION { { SweepTx(h, ins, <<TxOutput(v, "P2WPKH", w)>>) :
                ins \in SeqsUpTo(InputRefs(h), MaxInputs),
                v \in 0..MaxOutputValue, w \in Wallets } :
            h \in SweepTxHashes }

\* Transactions with another output vector, and malformed ones.
OddSweepTxs ==
    LET ins == <<TxInput(1, 0)>>
        good == <<TxOutput(1, "P2WPKH", 1)>>
    IN
    { SweepTx(3, ins, <<TxOutput(1, kind, 1)>>) :
        kind \in {"P2PKH", "P2SH", "P2WSH", "NONSTANDARD"} }
      \cup { SweepTx(3, ins, good \o good),
             [SweepTx(3, ins, good) EXCEPT !.vinValid = FALSE],
             [SweepTx(3, ins, good) EXCEPT !.voutValid = FALSE] }

\* Previous-sweep data a caller may claim: none, the pre-image of a stored
\* sweep hash, or data of a sweep that was never stored.
SweepInfos ==
    { SweepInfo(h, v) : h \in SweepTxHashes, v \in 0..MaxOutputValue }

PreviousSweepClaims(tx) ==
    LET w == tx.outputs[1].payload IN
    IF w \in Wallets /\ sweeps[w] # ZeroHash
    THEN { SweepInfo(ZeroHash, 0) }
           \cup { p \in SweepInfos :
                    \E x \in Wallets :
                      sweeps[x] = SweepHash(p.txHash, p.txOutputValue) }
    ELSE { SweepInfo(ZeroHash, 0), SweepInfo(3, 0) }

\* The transaction submitted with every proof.
ProofTestTx == SweepTx(3, <<TxInput(1, 0)>>, <<TxOutput(1, "P2WPKH", 1)>>)

\* The reveal calls.
RevealCalls ==
    { [fundingTx |-> tx, reveal |-> reveal] :
        tx \in FundingTxs, reveal \in RevealInfos }

----------------------------------------------------------------------------
(* The sweep transaction assembler (assembleDepositSweepTransaction).

   A call either returns the transaction or throws.  The reasons stand for
   the errors of the code:
     NoDepositUtxo             "There must be at least one deposit UTXO to
                               sweep" (EmptyOrMismatchedInputSet)
     UtxoDepositCountMismatch  "Number of UTXOs must equal the number of
                               deposit elements" (EmptyOrMismatchedInputSet)
     InvalidOutputValue        Transaction.addOutput rejects a value that is
                               not a satoshi amount
     TypeError                 a property of `undefined` is read: the raw
                               transaction has no output at outputIndex
     UtxoNotOwnedByWallet      "UTXO does not belong to the wallet"
     UnknownMainUtxoType       "Unknown type of main UTXO"
     UnsupportedScriptType     "Unsupported UTXO script type"
     AmountMismatch            "Mismatch between amount in deposit and
                               deposit tx"
     WalletKeyMismatch         "Wallet public key does not correspond to
                               wallet private key"
     UncompressedKey           "Wallet public key must be compressed" *)

\* Largest number of deposit UTXOs of a call of the assembler.
MaxUtxos == 2

\* TransactionHash.from(hex): the digest in the byte order block explorers
\* display; reverse() gives the other byte order, the one of the
\* serialized transaction.
TransactionHashFrom(digest) == [digest |-> digest, order |-> "display"]

ReverseHash(hash) ==
    [hash EXCEPT !.order =
       IF hash.order = "display" THEN "internal" ELSE "display"]

\* The wallet keys (ECPair.fromWIF(walletPrivateKey)): the public key, and
\* whether it is compressed.
WalletKeys ==
    { [publicKey |-> 101, compressed |-> TRUE],
      [publicKey |-> 102, compressed |-> TRUE] }

\* computeHash160(publicKey): key 101 is the key of wallet 1, 102 of 2.
computeHash160(publicKey) == publicKey - 100

isCompressedPublicKey(keyPair) == keyPair.compressed

\* publicKeyToAddress(publicKey, network, witness)
publicKeyToAddress(publicKey, witness) ==
    [kind |-> IF witness THEN "P2WPKH" ELSE "P2PKH",
     hash |-> computeHash160(publicKey)]

\* createOutputScriptFromAddress(address)
createOutputScriptFromAddress(address) ==
    [kind |-> address.kind, payload |-> address.hash]

\* Transaction.fromHex(transactionHex).outs[outputIndex]: no element when
\* the raw transaction has fewer outputs.
PreviousOutput(utxo) ==
    LET outputs == utxo.transactionHex.outputs
        i == utxo.outputIndex + 1
    IN
    IF i \in DOMAIN outputs
    THEN << [value |-> ExtractValue(outputs[i]),
             script |-> [kind |-> outputs[i].kind,
                         payload |-> outputs[i].payload]] >>
    ELSE <<>>

\* Variant: every script taken for a P2SH script.
EveryScriptIsP2SH(script) == TRUE

isP2PKHScript(script) == script.kind = "P2PKH"
isP2WPKHScript(script) == script.kind = "P2WPKH"
isP2SHScript(script) == script.kind = "P2SH"
isP2WSHScript(script) == script.kind = "P2WSH"

\* Variant: every UTXO taken for a UTXO of the wallet.
OwnsEveryUtxo(keyPair, prevOutScript) == TRUE

\* ownsUtxo(keyPair, prevOutScript, bitcoinNetwork)
ownsUtxo(keyPair, prevOutScript) ==
    LET p2pkhAddress == publicKeyToAddress(keyPair.publicKey, FALSE)
        p2wpkhAddress == publicKeyToAddress(keyPair.publicKey, TRUE)
    IN
    IF isP2PKHScript(prevOutScript) \/ isP2WPKHScript(prevOutScript)
    THEN [kind |-> prevOutScript.kind, hash |-> prevOutScript.payload]
           \in {p2pkhAddress, p2wpkhAddress}
    ELSE FALSE

\* transaction.hashForSignature(inputIndex, prevOutScript, SIGHASH_ALL) and
\* transaction.hashForWitnessV0(inputIndex, prevOutScript, value,
\* SIGHASH_ALL): the digests depend on the outpoints and the outputs of the
\* transaction, never on its scripts and witnesses.
Unsigned(transaction) ==
    [ins |-> [i \in DOMAIN transaction.ins |->
                <<transaction.ins[i].hash, transaction.ins[i].index>>],
     outs |-> transaction.outs]

hashForSignature(transaction, inputIndex, prevOutScript) ==
    <<"legacy", Unsigned(transaction), inputIndex, prevOutScript, 0>>

hashForWitnessV0(transaction, inputIndex, prevOutScript, value) ==
    <<"witnessV0", Unsigned(transaction), inputIndex, prevOutScript, value>>

\* script.signature.encode(walletKeyPair.sign(sigHash), SIGHASH_ALL)
Signature(keyPair, sigHash) == <<"signature", keyPair.publicKey, sigHash>>

\* transaction.ins[inputIndex].script = scriptSig, 0-based inputIndex.
SetScript(transaction, inputIndex, scriptSig) ==
    [transaction EXCEPT !.ins[inputIndex + 1].script = scriptSig]

\* Variant: the witness stack written into the scriptSig.
WitnessAsScript(transaction, inputIndex, witness) ==
    [transaction EXCEPT !.ins[inputIndex + 1].script = witness]

\* transaction.ins[inputIndex].witness = witness
SetWitness(transaction, inputIndex, witness) ==
    [transaction EXCEPT !.ins[inputIndex + 1].witness = witness]

\* signMainUtxoInput(transaction, inputIndex, previousOutput,
\* walletKeyPair, bitcoinNetwork), previousOutput being <<>> for undefined.
signMainUtxoInput(transaction, inputIndex, previousOutput, walletKeyPair) ==
    LET out == previousOutput[1]
        done(tx) == [err |-> OK, transaction |-> tx]
        thrown(reason) == [err |-> reason, transaction |-> transaction]
    IN
    IF previousOutput = <<>> THEN thrown("TypeError")
    ELSE IF ~ownsUtxo(walletKeyPair, out.script)
    THEN thrown("UtxoNotOwnedByWallet")
    ELSE IF isP2PKHScript(out.script)
    THEN done(SetScript(transaction, inputIndex,
                <<Signature(walletKeyPair,
                    hashForSignature(transaction, inputIndex, out.script)),
                  walletKeyPair.publicKey>>))
    ELSE IF isP2WPKHScript(out.script)
    THEN done(SetWitness(transaction, inputIndex,
                <<Signature(walletKeyPair,
                    hashForWitnessV0(transaction, inputIndex,
                      [kind |-> "P2PKH", payload |-> out.script.payload],
                      out.value)),
                  walletKeyPair.publicKey>>))
    ELSE thrown("UnknownMainUtxoType")

\* assembleDepositScript(depositScriptParameters): the template of the
\* deposit script with the pushes taken from the deposit.
assembleDepositScript(deposit) ==
    <<deposit.depositor, deposit.blindingFactor, deposit.walletPublicKeyHash,
      deposit.refundPublicKeyHash, deposit.refundLocktime>>

\* Variant: every amount accepted.
AnyAmountMatches(previousOutputValue, deposit) == TRUE

\* previousOutputValue == deposit.amount.toNumber()
AmountMatches(previousOutputValue, deposit) ==
    previousOutputValue = deposit.amount

\* Variant: every wallet public key hash accepted.
AnyWalletKeyMatches(walletKeyPair, deposit) == TRUE

\* computeHash160(walletPublicKey) == deposit.walletPublicKeyHash
WalletKeyMatches(walletKeyPair, deposit) ==
    computeHash160(walletKeyPair.publicKey) = deposit.walletPublicKeyHash

\* prepareDepositScript(deposit, previousOutputValue, walletKeyPair)
prepareDepositScript(deposit, previousOutputValue, walletKeyPair) ==
    IF ~AmountMatches(previousOutputValue, deposit)
    THEN [err |-> "AmountMismatch", depositScript |-> <<>>]
    ELSE IF ~WalletKeyMatches(walletKeyPair, deposit)
    THEN [err |-> "WalletKeyMismatch", depositScript |-> <<>>]
    ELSE IF ~isCompressedPublicKey(walletKeyPair)
    THEN [err |-> "UncompressedKey", depositScript |-> <<>>]
    ELSE [err |-> OK, depositScript |-> assembleDepositScript(deposit)]

\* signP2SHDepositInput(transaction, inputIndex, deposit,
\* previousOutputValue, walletKeyPair)
signP2SHDepositInput(transaction, inputIndex, deposit, previousOutputValue, walletKeyPair) ==
    LET prepared ==
            prepareDepositScript(deposit, previousOutputValue, walletKeyPair)
        depositScript == prepared.depositScript
    IN
    IF prepared.err # OK
    THEN [err |-> prepared.err, transaction |-> transaction]
    ELSE [err |-> OK,
          transaction |->
            SetScript(transaction, inputIndex,
              <<Signature(walletKeyPair,
                  hashForSignature(transaction, inputIndex, depositScript)),
                walletKeyPair.publicKey, depositScript>>)]

\* signP2WSHDepositInput(transaction, inputIndex, deposit,
\* previousOutputValue, walletKeyPair)
signP2WSHDepositInput(transaction, inputIndex, deposit, previousOutputValue, walletKeyPair) ==
    LET prepared ==
            prepareDepositScript(deposit, previousOutputValue, walletKeyPair)
        depositScript == prepared.depositScript
    IN
    IF prepared.err # OK
    THEN [err |-> prepared.err, transaction |-> transaction]
    ELSE [err |-> OK,
          transaction |->
            SetWitness(transaction, inputIndex,
              <<Signature(walletKeyPair,
                  hashForWitnessV0(transaction, inputIndex, depositScript,
                                   previousOutputValue)),
                walletKeyPair.publicKey, depositScript>>)]

\* Variant: the deposit index taken for the input index.
SameInputIndex(mainUtxo, depositIndex) == depositIndex

\* inputIndex = mainUtxo ? depositIndex + 1 : depositIndex
DepositInputIndex(mainUtxo, depositIndex) ==
    IF mainUtxo # <<>> THEN depositIndex + 1 ELSE depositIndex

\* The loop that signs the deposit inputs, from the 0-based depositIndex
\* on: it ends at the first error.
RECURSIVE SignDepositInputsFrom(_, _, _, _, _, _)
SignDepositInputsFrom(transaction, depositIndex, utxos, depositData, mainUtxo, walletKeyPair) ==
    IF depositIndex >= Len(depositData)
    THEN [err |-> OK, transaction |-> transaction]
    ELSE
      LET inputIndex == DepositInputIndex(mainUtxo, depositIndex)
          previousOutput == PreviousOutput(utxos[depositIndex + 1])
          out == previousOutput[1]
          deposit == depositData[depositIndex + 1]
          signed ==
              IF isP2SHScript(out.script)
              THEN signP2SHDepositInput(transaction, inputIndex, deposit,
                                        out.value, walletKeyPair)
              ELSE signP2WSHDepositInput(transaction, inputIndex, deposit,
                                         out.value, walletKeyPair)
      IN
      IF previousOutput = <<>>
      THEN [err |-> "TypeError", transaction |-> transaction]
      ELSE IF ~isP2SHScript(out.script) /\ ~isP2WSHScript(out.script)
      THEN [err |-> "UnsupportedScriptType", transaction |-> transaction]
      ELSE IF signed.err # OK THEN signed
      ELSE SignDepositInputsFrom(signed.transaction, depositIndex + 1, utxos,
                                 depositData, mainUtxo, walletKeyPair)

\* Variant: the number of deposit elements checked first.
CheckCountFirst(utxos, depositData) ==
    IF Len(utxos) # Len(depositData) THEN "UtxoDepositCountMismatch"
    ELSE IF Len(utxos) < 1 THEN "NoDepositUtxo"
    ELSE OK

\* The two checks of the input set.
CheckInputSet(utxos, depositData) ==
    IF Len(utxos) < 1 THEN "NoDepositUtxo"
    ELSE IF Len(utxos) # Len(depositData) THEN "UtxoDepositCountMismatch"
    ELSE OK

\* transaction.addInput(utxo.transactionHash.reverse().toBuffer(),
\* utxo.outputIndex)
AddInput(utxo) ==
    [hash |-> ReverseHash(utxo.transactionHash), index |-> utxo.outputIndex,
     script |-> <<>>, witness |-> <<>>]

\* The sum of the values of the given UTXOs.
RECURSIVE SumValues(_)
SumValues(utxos) ==
    IF utxos = <<>> THEN 0 ELSE Head(utxos).value + SumValues(Tail(utxos))

\* Variant: the value of the main UTXO left out.
DepositsValue(fee, utxos, mainUtxo) == SumValues(utxos) - fee

\* outputValue: the values of the main UTXO and of the deposit UTXOs, minus
\* the fee.
OutputValue(fee, utxos, mainUtxo) ==
    SumValues(mainUtxo) + SumValues(utxos) - fee

\* transaction.getId() as a TransactionHash: the digest of the serialized
\* transaction without its witnesses.
TransactionId(transaction) ==
    TransactionHashFrom(
      [ins |-> [i \in DOMAIN transaction.ins |->
                  [hash |-> transaction.ins[i].hash,
                   index |-> transaction.ins[i].index,
                   script |-> transaction.ins[i].script]],
       outs |-> transaction.outs])

\* assembleDepositSweepTransaction(bitcoinNetwork, fee, walletPrivateKey,
\* witness, utxos, depositData, mainUtxo): mainUtxo is <<>> when absent, and
\* `returned` is <<>> when the call threw.
assembleDepositSweepTransaction(fee, walletKeyPair, witness, utxos, depositData, mainUtxo) ==
    LET inputSet == CheckInputSet(utxos, depositData)
        walletAddress == publicKeyToAddress(walletKeyPair.publicKey, witness)
        outputValue == OutputValue(fee, utxos, mainUtxo)
        transaction ==
            [ins |-> [i \in DOMAIN mainUtxo |-> AddInput(mainUtxo[i])]
                       \o [i \in DOMAIN utxos |-> AddInput(utxos[i])],
             outs |-> << [script |->
                            createOutputScriptFromAddress(walletAddress),
                          value |-> outputValue] >>]
        main ==
            IF mainUtxo # <<>>
            THEN signMainUtxoInput(transaction, 0,
                                   PreviousOutput(mainUtxo[1]), walletKeyPair)
            ELSE [err |-> OK, transaction |-> transaction]
        signed ==
            SignDepositInputsFrom(main.transaction, 0, utxos, depositData,
                                  mainUtxo, walletKeyPair)
        thrown(reason) == [err |-> reason, returned |-> <<>>]
    IN
    IF inputSet # OK THEN thrown(inputSet)
    ELSE IF outputValue < 0
    THEN thrown("InvalidOutputValue")
    ELSE IF main.err # OK THEN thrown(main.err)
    ELSE IF signed.err # OK THEN thrown(signed.err)
    ELSE [err |-> OK,
          returned |->
            << [transactionHash |-> TransactionId(signed.transaction),
                newMainUtxo |->
                  [transactionHash |-> TransactionId(signed.transaction),
                   outputIndex |-> 0,
                   value |-> signed.transaction.outs[1].value],
                rawTransaction |-> signed.transaction] >>]

\* The calls of the assembler.  Deposit UTXOs spend an output of a funding
\* transaction (or claim to: output 1 of transaction 2 does not exist) and
\* carry the value of that output or the value 2.
DepositUtxos ==
    { u \in [transactionHash :
                { TransactionHashFrom(h) : h \in FundingTxHashes },
             outputIndex : OutputIndexes, value : 1..3,
             transactionHex : FundingTxs] :
        /\ u.transactionHash = TransactionHashFrom(u.transactionHex.hash)
        /\ \/ u.value = 2
           \/ /\ PreviousOutput(u) # <<>>
              /\ u.value = PreviousOutput(u)[1].value }

\* The deposit data: the deposits of the two funding transactions, and
\* data with another amount or another wallet.
Deposits ==
    { [depositor |-> d[1], amount |-> d[2], walletPublicKeyHash |-> d[3],
       blindingFactor |-> 5, refundPublicKeyHash |-> 7,
       refundLocktime |-> 8, vault |-> ZeroAddress] :
        d \in { <<11, 3, 1>>, <<12, 1, 2>>, <<11, 1, 1>>, <<11, 3, 2>> } }

\* The raw transaction of a sweep with hash h that pays `value` to `wallet`
\* with a script of the given kind.
PreviousSweepTx(h, value, kind, wallet) ==
    [hash |-> h, outputs |-> <<TxOutput(value, kind, wallet)>>]

\* Main UTXOs: nothing, output 0 of a sweep of 2 satoshi, or output 1 of
\* such a sweep, which its raw transaction does not have.
MainUtxos ==
    { <<>> } \cup
    { << [transactionHash |-> TransactionHashFrom(3), outputIndex |-> 0,
          value |-> 2,
          transactionHex |-> PreviousSweepTx(3, 2, kind, w)] >> :
        kind \in {"P2WPKH", "P2PKH", "P2SH"}, w \in Wallets } \cup
    { << [transactionHash |-> TransactionHashFrom(3), outputIndex |-> 1,
          value |-> 2,
          transactionHex |-> PreviousSweepTx(3, 2, "P2WPKH", 1)] >> }

Fees == {0, 2}

SeqsFromZeroUpTo(S, n) == UNION { [1..k -> S] : k \in 0..n }

AssembleCalls ==
    [fee : Fees, walletKeyPair : WalletKeys, witness : BOOLEAN,
     utxos : SeqsFromZeroUpTo(DepositUtxos, MaxUtxos),
     deposits : SeqsFromZeroUpTo(Deposits, MaxUtxos),
     mainUtxo : MainUtxos]

\* The outcome of a call.
Assembled(call) ==
    assembleDepositSweepTransaction(call.fee, call.walletKeyPair,
        call.witness, call.utxos, call.deposits, call.mainUtxo)

----------------------------------------------------------------------------
(* The submission functions of the client: submitDepositSweepTransaction,
   which fetches the raw transactions of the UTXOs, assembles the sweep
   transaction and broadcasts it, and submitDepositSweepProof, which
   assembles the proof of a transaction and submits it to the Bridge
   handle.  A call is at one of its awaits; an await on the Bitcoin client
   or on the Bridge handle returns or throws. *)

\* The raw transactions the Bitcoin client returns, by transaction hash:
\* the funding transactions and the sweep transaction 3.  The client
\* throws for another hash.
ClientRawTransactions ==
    [h \in FundingTxHashes \cup {3} |->
       IF h = 3
       THEN SweepTx(3, <<TxInput(1, 0)>>, <<TxOutput(2, "P2WPKH", 1)>>)
       ELSE CHOOSE tx \in FundingTxs : tx.hash = h]

\* bitcoinClient.getRawTransaction(transactionHash) when the client
\* answers: the raw transaction, or <<>> when it has none for the hash.
getRawTransaction(transactionHash) ==
    IF transactionHash.digest \in DOMAIN ClientRawTransactions
    THEN << [transactionHex |-> ClientRawTransactions[transactionHash.digest]] >>
    ELSE <<>>

\* { ...utxo, transactionHex: rawTransaction.transactionHex }
WithRaw(utxo, rawTransaction) ==
    [transactionHash |-> utxo.transactionHash,
     outputIndex |-> utxo.outputIndex,
     value |-> utxo.value,
     transactionHex |-> rawTransaction.transactionHex]

\* Variant: the transaction broadcast without its signatures.
BroadcastUnsigned(log, rawTransaction) ==
    Append(log,
      [rawTransaction EXCEPT
         !.ins = [i \in DOMAIN @ |->
                    [@[i] EXCEPT !.script = <<>>, !.witness = <<>>]]])

\* bitcoinClient.broadcast(rawTransaction) on the log of the client.
broadcast(log, rawTransaction) == Append(log, rawTransaction)

\* The UTXOs of the calls of submitDepositSweepTransaction: the deposit
\* UTXOs without their raw transactions.
SubmitUtxos ==
    { [transactionHash |-> u.transactionHash, outputIndex |-> u.outputIndex,
       value |-> u.value] : u \in DepositUtxos }

\* The main UTXOs of the calls: nothing, or an output of transaction 3.
SubmitMainUtxos ==
    { <<>> } \cup
    { << [transactionHash |-> TransactionHashFrom(3), outputIndex |-> i,
          value |-> 2] >> : i \in OutputIndexes }

\* The calls of submitDepositSweepTransaction.
SubmitCalls ==
    [fee : Fees, walletKeyPair : WalletKeys, witness : BOOLEAN,
     utxos : SeqsFromZeroUpTo(SubmitUtxos, MaxUtxos),
     deposits : SeqsFromZeroUpTo(Deposits, MaxUtxos),
     mainUtxo : SubmitMainUtxos]

\* submitDepositSweepTransaction at its entry: nothing fetched yet.
SubmissionStarted(call) ==
    [call |-> call, pc |-> "running", err |-> OK,
     utxosWithRaw |-> <<>>, mainUtxoWithRaw |-> <<>>,
     bitcoinNetwork |-> <<>>, assembled |-> <<>>, returned |-> <<>>]

\* The call threw.
Thrown(process, reason) == [process EXCEPT !.pc = "failed", !.err = reason]

\* The positions of a running call of submitDepositSweepTransaction.
AtUtxoFetch(s) ==
    s.pc = "running" /\ Len(s.utxosWithRaw) < Len(s.call.utxos)

AtMainUtxoFetch(s) ==
    /\ s.pc = "running"
    /\ Len(s.utxosWithRaw) = Len(s.call.utxos)
    /\ s.call.mainUtxo # <<>>
    /\ s.mainUtxoWithRaw = <<>>

AtGetNetwork(s) ==
    /\ s.pc = "running"
    /\ Len(s.utxosWithRaw) = Len(s.call.utxos)
    /\ Len(s.mainUtxoWithRaw) = Len(s.call.mainUtxo)
    /\ s.bitcoinNetwork = <<>>

AtAssembly(s) ==
    s.pc = "running" /\ s.bitcoinNetwork # <<>> /\ s.assembled = <<>>

AtBroadcast(s) == s.pc = "running" /\ s.assembled # <<>>

\* The call of assembleDepositSweepTransaction of a submission.
SubmissionAssembly(s) ==
    assembleDepositSweepTransaction(s.call.fee, s.call.walletKeyPair,
        s.call.witness, s.utxosWithRaw, s.call.deposits, s.mainUtxoWithRaw)

\* The transaction hashes whose proof is submitted: transaction 3, and
\* transaction 4, which the Bitcoin client does not have.
ProvenTransactionHashes == { TransactionHashFrom(h) : h \in SweepTxHashes }

\* The calls of submitDepositSweepProof: the main UTXO is the empty UTXO
\* of a wallet without one, or an output of transaction 3; the vault is
\* optional.
ProveCalls ==
    [transactionHash : ProvenTransactionHashes,
     mainUtxo :
       { [transactionHash |-> TransactionHashFrom(ZeroHash),
          outputIndex |-> 0, value |-> 0],
         [transactionHash |-> TransactionHashFrom(3),
          outputIndex |-> 0, value |-> 2] },
     vault : { <<>> } \cup { <<v>> : v \in Vaults }]

\* submitDepositSweepProof at its entry.
ProvingStarted(call) ==
    [call |-> call, pc |-> "running", err |-> OK,
     confirmations |-> <<>>, proof |-> <<>>, rawTransaction |-> <<>>]

\* assembleTransactionProof(transactionHash, confirmations, bitcoinClient)
\* when it returns: the proof of the transaction over the required number
\* of confirmations.
assembleTransactionProof(transactionHash, confirmations) ==
    [transactionHash |-> transactionHash,
     requiredConfirmations |-> confirmations]

\* decomposeRawTransaction(rawTransaction): the input and output vectors
\* of the raw transaction.
decomposeRawTransaction(rawTransaction) ==
    [inputs |-> rawTransaction.transactionHex.inputs,
     outputs |-> rawTransaction.transactionHex.outputs]

\* Variant: the proof submitted without the vault.
SubmissionWithoutVault(sweepTx, sweepProof, mainUtxo, vault) ==
    [sweepTx |-> sweepTx, sweepProof |-> sweepProof, mainUtxo |-> mainUtxo,
     vault |-> <<>>]

\* The arguments of bridge.submitDepositSweepProof(decomposedRawTransaction,
\* proof, mainUtxo, vault).
ProofSubmission(sweepTx, sweepProof, mainUtxo, vault) ==
    [sweepTx |-> sweepTx, sweepProof |-> sweepProof, mainUtxo |-> mainUtxo,
     vault |-> vault]

\* The positions of a running call of submitDepositSweepProof.
AtDifficultyFactor(p) == p.pc = "running" /\ p.confirmations = <<>>

AtProofAssembly(p) ==
    p.pc = "running" /\ p.confirmations # <<>> /\ p.proof = <<>>

AtRawTransactionFetch(p) ==
    p.pc = "running" /\ p.proof # <<>> /\ p.rawTransaction = <<>>

AtProofSubmission(p) == p.pc = "running" /\ p.rawTransaction # <<>>

----------------------------------------------------------------------------
(* Actions: one per external call, and the passing of time. *)

Range(seq) == { seq[i] : i \in DOMAIN seq }

Init ==
    /\ isVaultTrusted = [v \in Vaults |-> FALSE]
    /\ deposits = <<>>
    /\ sweeps = [w \in Wallets |-> ZeroHash]
    /\ now = [epoch |-> 0, secs |-> 1]
    /\ credited = {}
    /\ assembleCall = <<>>
    /\ assembled = <<>>
    /\ submitting = <<>>
    /\ broadcastLog = <<>>
    /\ proving = <<>>
    /\ depositSweepProofLog = <<>>

\* setVaultStatus(vault, isTrusted), onlyOwner.
SetVaultStatus ==
    \E caller \in Callers, vault \in Vaults, isTrusted \in BOOLEAN :
      /\ isVaultTrusted' = setVaultStatus(State, caller, vault, isTrusted)
      /\ UNCHANGED <<deposits, sweeps, now, credited, assembleCall, assembled,
                  clientVars>>

\* revealDeposit(fundingTx, reveal)
RevealDeposit ==
    \E call \in RevealCalls :
      \E r \in {revealDeposit(State, call.fundingTx, call.reveal, now)} :
      /\ deposits' = r.deposits
      /\ UNCHANGED <<isVaultTrusted, sweeps, now, credited, assembleCall, assembled,
                  clientVars>>

\* The effect of the call sweep(tx, proof, previousSweep).
SweepCall(tx, proof, previousSweep) ==
    \E r \in {sweep(State, tx, proof, previousSweep, now)} :
    /\ deposits' = r.deposits
    /\ sweeps' = r.sweeps
    /\ credited' = credited \cup Range(r.keys)
    /\ UNCHANGED <<isVaultTrusted, now, assembleCall, assembled,
                  clientVars>>

\* sweep(sweepTx, sweepProof, previousSweep): every transaction with a valid
\* proof and every claim, and one transaction with every proof.
Sweep ==
    \/ \E tx \in SweepTxs \cup OddSweepTxs :
         \E p \in PreviousSweepClaims(tx) :
           SweepCall(tx, ValidProof, p)
    \/ \E proof \in Proofs :
         SweepCall(ProofTestTx, proof, SweepInfo(ZeroHash, 0))

\* A later block is executed.
AdvanceTime ==
    \E t \in Timestamps :
      /\ t # now
      /\ TimeLeq(now, t)
      /\ now' = t
      /\ UNCHANGED <<isVaultTrusted, deposits, sweeps, credited, assembleCall, assembled,
                  clientVars>>

Next == SetVaultStatus \/ RevealDeposit \/ Sweep \/ AdvanceTime

Spec == Init /\ [][Next]_vars

\* The assembler is a function of its arguments: a call is drawn, and the
\* one step computes its outcome.  The contract is as constructed.
AssemblerInit ==
    /\ isVaultTrusted = [v \in Vaults |-> FALSE]
    /\ deposits = <<>>
    /\ sweeps = [w \in Wallets |-> ZeroHash]
    /\ now = [epoch |-> 0, secs |-> 1]
    /\ credited = {}
    /\ assembleCall \in AssembleCalls
    /\ assembled = <<>>
    /\ submitting = <<>>
    /\ broadcastLog = <<>>
    /\ proving = <<>>
    /\ depositSweepProofLog = <<>>

\* assembleDepositSweepTransaction(...) runs to its return or its throw.
Assemble ==
    /\ assembled = <<>>
    /\ assembled' = <<Assembled(assembleCall)>>
    /\ UNCHANGED <<isVaultTrusted, deposits, sweeps, now, credited,
                   assembleCall, clientVars>>

AssemblerNext == Assemble

AssemblerSpec == AssemblerInit /\ [][AssemblerNext]_vars

\* A call of one of the two submission functions is drawn; the contract is
\* as constructed.
ClientInit ==
    /\ isVaultTrusted = [v \in Vaults |-> FALSE]
    /\ deposits = <<>>
    /\ sweeps = [w \in Wallets |-> ZeroHash]
    /\ now = [epoch |-> 0, secs |-> 1]
    /\ credited = {}
    /\ assembleCall = <<>>
    /\ assembled = <<>>
    /\ broadcastLog = <<>>
    /\ depositSweepProofLog = <<>>
    /\ \/ /\ submitting \in { <<SubmissionStarted(call)>> :
                                call \in SubmitCalls }
          /\ proving = <<>>
       \/ /\ submitting = <<>>
          /\ proving \in { <<ProvingStarted(call)>> : call \in ProveCalls }

bridgeVars ==
    <<isVaultTrusted, deposits, sweeps, now, credited, assembleCall, assembled>>

\* await bitcoinClient.getRawTransaction(utxo.transactionHash) in the loop
\* over the UTXOs, and the push to utxosWithRaw.
FetchUtxoRawTransaction ==
    /\ submitting # <<>>
    /\ AtUtxoFetch(submitting[1])
    /\ LET s == submitting[1]
           utxo == s.call.utxos[Len(s.utxosWithRaw) + 1]
           fetched == getRawTransaction(utxo.transactionHash)
       IN
       \/ /\ fetched # <<>>
          /\ submitting' =
               << [s EXCEPT !.utxosWithRaw =
                              Append(@, WithRaw(utxo, fetched[1]))] >>
       \/ submitting' = << Thrown(s, "GetRawTransactionError") >>
    /\ UNCHANGED <<bridgeVars, broadcastLog, proving, depositSweepProofLog>>

\* await bitcoinClient.getRawTransaction(mainUtxo.transactionHash)
FetchMainUtxoRawTransaction ==
    /\ submitting # <<>>
    /\ AtMainUtxoFetch(submitting[1])
    /\ LET s == submitting[1]
           mainUtxo == s.call.mainUtxo[1]
           fetched == getRawTransaction(mainUtxo.transactionHash)
       IN
       \/ /\ fetched # <<>>
          /\ submitting' =
               << [s EXCEPT !.mainUtxoWithRaw =
                              << WithRaw(mainUtxo, fetched[1]) >>] >>
       \/ submitting' = << Thrown(s, "GetRawTransactionError") >>
    /\ UNCHANGED <<bridgeVars, broadcastLog, proving, depositSweepProofLog>>

\* await bitcoinClient.getNetwork()
GetNetwork ==
    /\ submitting # <<>>
    /\ AtGetNetwork(submitting[1])
    /\ LET s == submitting[1] IN
       \/ submitting' = << [s EXCEPT !.bitcoinNetwork = <<"testnet">>] >>
       \/ submitting' = << Thrown(s, "GetNetworkError") >>
    /\ UNCHANGED <<bridgeVars, broadcastLog, proving, depositSweepProofLog>>

\* await assembleDepositSweepTransaction(...)
AssembleTransaction ==
    /\ submitting # <<>>
    /\ AtAssembly(submitting[1])
    /\ \E r \in {SubmissionAssembly(submitting[1])} :
         submitting' =
           IF r.err = OK
           THEN << [submitting[1] EXCEPT !.assembled = r.returned] >>
           ELSE << Thrown(submitting[1], r.err) >>
    /\ UNCHANGED <<bridgeVars, broadcastLog, proving, depositSweepProofLog>>

\* await bitcoinClient.broadcast(rawTransaction), and the return of
\* { transactionHash, newMainUtxo }.
Broadcast ==
    /\ submitting # <<>>
    /\ AtBroadcast(submitting[1])
    /\ LET s == submitting[1]
           built == s.assembled[1]
       IN
       \/ /\ broadcastLog' = broadcast(broadcastLog, built.rawTransaction)
          /\ submitting' =
               << [s EXCEPT
                     !.pc = "returned",
                     !.returned =
                       << [transactionHash |-> built.transactionHash,
                           newMainUtxo |-> built.newMainUtxo] >>] >>
       \/ /\ submitting' = << Thrown(s, "BroadcastError") >>
          /\ UNCHANGED broadcastLog
    /\ UNCHANGED <<bridgeVars, proving, depositSweepProofLog>>

\* await bridge.txProofDifficultyFactor()
ReadTxProofDifficultyFactor ==
    /\ proving # <<>>
    /\ AtDifficultyFactor(proving[1])
    /\ LET p == proving[1] IN
       \/ proving' =
            << [p EXCEPT !.confirmations = <<TxProofDifficultyFactor>>] >>
       \/ proving' = << Thrown(p, "BridgeCallError") >>
    /\ UNCHANGED <<bridgeVars, submitting, broadcastLog, depositSweepProofLog>>

\* await assembleTransactionProof(transactionHash, confirmations,
\* bitcoinClient)
AssembleTransactionProof ==
    /\ proving # <<>>
    /\ AtProofAssembly(proving[1])
    /\ LET p == proving[1] IN
       \/ proving' =
            << [p EXCEPT !.proof =
                  << assembleTransactionProof(p.call.transactionHash,
                                              p.confirmations[1]) >>] >>
       \/ proving' = << Thrown(p, "ProofAssemblyError") >>
    /\ UNCHANGED <<bridgeVars, submitting, broadcastLog, depositSweepProofLog>>

\* await bitcoinClient.getRawTransaction(transactionHash)
FetchSweepRawTransaction ==
    /\ proving # <<>>
    /\ AtRawTransactionFetch(proving[1])
    /\ LET p == proving[1]
           fetched == getRawTransaction(p.call.transactionHash)
       IN
       \/ /\ fetched # <<>>
          /\ proving' = << [p EXCEPT !.rawTransaction = fetched] >>
       \/ proving' = << Thrown(p, "GetRawTransactionError") >>
    /\ UNCHANGED <<bridgeVars, submitting, broadcastLog, depositSweepProofLog>>

\* decomposeRawTransaction(rawTransaction) and
\* await bridge.submitDepositSweepProof(decomposedRawTransaction, proof,
\* mainUtxo, vault)
SubmitProof ==
    /\ proving # <<>>
    /\ AtProofSubmission(proving[1])
    /\ LET p == proving[1] IN
       \/ /\ depositSweepProofLog' =
               Append(depositSweepProofLog,
                 ProofSubmission(decomposeRawTransaction(p.rawTransaction[1]),
                                 p.proof[1], p.call.mainUtxo, p.call.vault))
          /\ proving' = << [p EXCEPT !.pc = "returned"] >>
       \/ /\ proving' = << Thrown(p, "BridgeCallError") >>
          /\ UNCHANGED depositSweepProofLog
    /\ UNCHANGED <<bridgeVars, submitting, broadcastLog>>

ClientNext ==
    \/ FetchUtxoRawTransaction
    \/ FetchMainUtxoRawTransaction
    \/ GetNetwork
    \/ AssembleTransaction
    \/ Broadcast
    \/ ReadTxProofDifficultyFactor
    \/ AssembleTransactionProof
    \/ FetchSweepRawTransaction
    \/ SubmitProof

ClientSpec == ClientInit /\ [][ClientNext]_vars

----------------------------------------------------------------------------
(* Properties.  A property about "every sweep call" quantifies over the
   calls of the environment in the current state and the outcome the
   contract computes for them. *)

AllSweepTxs == SweepTxs \cup OddSweepTxs

\* The outcome of sweep(tx, proof, p) with a valid proof in the current state.
Outcome(tx, p) == sweep(State, tx, ValidProof, p, now)

\* The outcome of revealDeposit(call) in the current state.
RevealOutcome(call) == revealDeposit(State, call.fundingTx, call.reveal, now)

RECURSIVE SumSeq(_)
SumSeq(seq) == IF seq = <<>> THEN 0 ELSE Head(seq) + SumSeq(Tail(seq))

\* The registered amounts of the deposits with the given keys, in order.
AmountsOf(keys) == [i \in DOMAIN keys |-> DepositAt(deposits, keys[i]).amount]

\* The wallet a transaction's first output pays.
WalletOf(tx) == tx.outputs[1].payload

\* C1: a deposit that was credited by a successful sweep is part of no later
\* successful sweep: every sweep call whose inputs include its outpoint
\* fails, so each outpoint is credited by at most one successful sweep.
C1_NoDoubleCredit ==
    \A tx \in AllSweepTxs : \A p \in PreviousSweepClaims(tx) :
      (\E i \in DOMAIN tx.inputs :
         LET in == parseTxInputAt(tx.inputs[i])
         IN DepositKey(in.inputTxHash, in.inputTxIndex) \in credited)
        => Outcome(tx, p).err # OK

\* C2: after a successful reveal of an outpoint (its record exists), every
\* later reveal of the same outpoint fails and leaves the record unchanged.
C2_RevealAtMostOnce ==
    \A call \in RevealCalls :
      LET r == RevealOutcome(call) IN
      r.key \in DOMAIN deposits => r.err # OK /\ r.deposits = deposits

\* C3: once a wallet has a sweep pointer, a sweep for that wallet that does
\* not spend the exact previous sweep output (output 0 of the transaction
\* the pointer was computed from) fails.
C3_ChainContinuity ==
    \A tx \in AllSweepTxs : \A p \in PreviousSweepClaims(tx) :
      \A prev \in SweepInfos :
        ( /\ WalletOf(tx) \in Wallets
          /\ sweeps[WalletOf(tx)]
               = SweepHash(prev.txHash, prev.txOutputValue)
          /\ \A i \in DOMAIN tx.inputs :
               parseTxInputAt(tx.inputs[i])
                 # [inputTxHash |-> prev.txHash, inputTxIndex |-> 0] )
        => Outcome(tx, p).err # OK

\* C4: a successful sweep for a wallet that already has a pointer contains
\* an input whose transaction hash is that of the sweep the pointer was
\* computed from, and the value added to the total input value besides the
\* deposits is exactly that sweep's output value.
C4_LinearChain ==
    \A tx \in AllSweepTxs : \A p \in PreviousSweepClaims(tx) :
      LET r == Outcome(tx, p) IN
      (r.err = OK /\ sweeps[r.walletPubKeyHash] # ZeroHash) =>
        \E prev \in SweepInfos :
          /\ sweeps[r.walletPubKeyHash]
               = SweepHash(prev.txHash, prev.txOutputValue)
          /\ \E i \in DOMAIN r.inputs : r.inputs[i].inputTxHash = prev.txHash
          /\ r.inputsValue
               = SumSeq(AmountsOf(r.keys)) + prev.txOutputValue

\* A second sweep of a wallet's chain can succeed.
C4_Witness ==
    \E tx \in AllSweepTxs : \E p \in PreviousSweepClaims(tx) :
      LET r == Outcome(tx, p) IN
      /\ r.err = OK
      /\ sweeps[r.walletPubKeyHash] # ZeroHash
      /\ Len(r.keys) = 1

\* C5: a reveal or sweep call that fails leaves the deposits and every sweep
\* pointer as before the call and makes no Bank.increaseBalances call, also
\* when deposits were marked swept before the failure.
C5_FailedCallChangesNothing ==
    /\ \A tx \in AllSweepTxs : \A p \in PreviousSweepClaims(tx) :
         LET r == Outcome(tx, p) IN
         r.err # OK =>
           /\ r.deposits = deposits
           /\ r.sweeps = sweeps
           /\ r.depositors = <<>> /\ r.amounts = <<>> /\ r.keys = <<>>
    /\ \A proof \in Proofs :
         LET r == sweep(State, ProofTestTx, proof, SweepInfo(ZeroHash, 0), now)
         IN r.err # OK =>
              /\ r.deposits = deposits
              /\ r.sweeps = sweeps
              /\ r.depositors = <<>> /\ r.amounts = <<>> /\ r.keys = <<>>
    /\ \A call \in RevealCalls :
         LET r == RevealOutcome(call) IN
         r.err # OK => r.deposits = deposits

\* A sweep fails at its second input after the deposit of its first input
\* was marked swept.
C5_Witness ==
    \E tx \in AllSweepTxs : \E p \in PreviousSweepClaims(tx) :
      LET r == Outcome(tx, p) IN
      /\ r.err \in {"UnknownInputOrigin", "DepositAlreadySwept"}
      /\ r.marked = 1

\* C6: a successful first sweep of a wallet with N deposit inputs credits
\* every deposit with its amount minus floor(fee / N), where
\* fee = (sum of the N deposit amounts) - output value.
C6_FirstSweepFeeShare ==
    \A tx \in AllSweepTxs : \A p \in PreviousSweepClaims(tx) :
      LET r == Outcome(tx, p)
          N == Len(tx.inputs)
          deposited == AmountsOf(r.keys)
          fee == SumSeq(deposited) - ExtractValue(tx.outputs[1])
          feeShare == fee \div N
      IN
      (r.err = OK /\ sweeps[WalletOf(tx)] = ZeroHash) =>
        /\ Len(r.keys) = N /\ Len(r.amounts) = N /\ Len(r.depositors) = N
        /\ fee >= 0
        /\ \A i \in 1..N :
             /\ r.amounts[i] = deposited[i] - feeShare
             /\ r.depositors[i] = DepositAt(deposits, r.keys[i]).depositor

\* A first sweep of two deposits succeeds with a fee that two does not
\* divide.
C6_Witness ==
    \E tx \in AllSweepTxs : \E p \in PreviousSweepClaims(tx) :
      LET r == Outcome(tx, p) IN
      /\ r.err = OK
      /\ sweeps[WalletOf(tx)] = ZeroHash
      /\ Len(r.keys) = 2
      /\ (r.inputsValue - r.outputValue) % 2 = 1

\* C7: a successful sweep never has a fee share above the amount of one of
\* its deposits and never emits a negative credit; a sweep rejected for its
\* fee share marks no deposit, moves no pointer and emits no credit.
C7_FeeShareWithinAmounts ==
    \A tx \in AllSweepTxs : \A p \in PreviousSweepClaims(tx) :
      LET r == Outcome(tx, p)
          deposited == AmountsOf(r.keys)
          feeShare == (r.inputsValue - r.outputValue) \div Len(r.keys)
      IN
      /\ r.err = OK =>
           \A i \in DOMAIN r.amounts :
             /\ feeShare <= deposited[i]
             /\ r.amounts[i] >= 0
             /\ r.amounts[i] <= deposited[i]
      /\ r.err = "FeeShareExceedsAmount" =>
           /\ r.deposits = deposits
           /\ r.sweeps = sweeps
           /\ r.amounts = <<>>

\* A sweep is rejected because its fee share exceeds the amount of a
\* deposit, after a deposit was marked swept.
C7_Witness ==
    \E tx \in AllSweepTxs : \E p \in PreviousSweepClaims(tx) :
      LET r == Outcome(tx, p) IN
      r.err = "FeeShareExceedsAmount" /\ r.marked = 2

\* The value of the inputs of a transaction: the amounts of its inputs that
\* are registered deposits, plus the value of the wallet's previous sweep
\* output when an input spends the previous sweep transaction.
TotalInputValue(tx) ==
    LET ins == [i \in DOMAIN tx.inputs |-> parseTxInputAt(tx.inputs[i])]
        isDeposit(in) ==
            DepositAt(deposits,
                      DepositKey(in.inputTxHash, in.inputTxIndex)).revealedAt
              # 0
        amount(in) ==
            IF isDeposit(in)
            THEN DepositAt(deposits,
                           DepositKey(in.inputTxHash, in.inputTxIndex)).amount
            ELSE 0
        previous ==
            { s \in SweepInfos :
                /\ sweeps[WalletOf(tx)] = SweepHash(s.txHash, s.txOutputValue)
                /\ \E i \in DOMAIN ins :
                     ~isDeposit(ins[i]) /\ ins[i].inputTxHash = s.txHash }
        previousValue ==
            IF previous = {} THEN 0
            ELSE (CHOOSE s \in previous : TRUE).txOutputValue
    IN SumSeq([i \in DOMAIN ins |-> amount(ins[i])]) + previousValue

\* C8: a sweep whose total input value is smaller than its output value
\* fails and changes no state.
C8_NegativeFeeRejected ==
    \A tx \in SweepTxs : \A p \in PreviousSweepClaims(tx) :
      LET r == Outcome(tx, p) IN
      TotalInputValue(tx) < ExtractValue(tx.outputs[1]) =>
        /\ r.err # OK
        /\ r.deposits = deposits
        /\ r.sweeps = sweeps
        /\ r.amounts = <<>>

\* A sweep that passes every earlier check is rejected for its negative fee.
C8_Witness ==
    \E tx \in SweepTxs : \E p \in PreviousSweepClaims(tx) :
      /\ Outcome(tx, p).err = "NegativeFee"
      /\ TotalInputValue(tx) < ExtractValue(tx.outputs[1])

\* C9: a successful sweep paying wallet W leaves sweeps[W] equal to the
\* hash of its transaction hash and output value and the pointer of every
\* other wallet unchanged; no sweep call clears a pointer that is set.
C9_PointerUpdate ==
    \A tx \in AllSweepTxs : \A p \in PreviousSweepClaims(tx) :
      LET r == Outcome(tx, p) IN
      /\ r.err = OK =>
           /\ r.sweeps[WalletOf(tx)]
                = 1 + TxHash(tx) * (MaxOutputValue + 2)
                    + ExtractValue(tx.outputs[1])
           /\ \A w \in Wallets \ {WalletOf(tx)} : r.sweeps[w] = sweeps[w]
      /\ \A w \in Wallets : sweeps[w] # ZeroHash => r.sweeps[w] # ZeroHash

\* A sweep succeeds for one wallet while the other wallet has a pointer.
C9_Witness ==
    \E tx \in AllSweepTxs : \E p \in PreviousSweepClaims(tx) :
      /\ Outcome(tx, p).err = OK
      /\ \E w \in Wallets \ {WalletOf(tx)} : sweeps[w] # ZeroHash
      /\ sweeps[WalletOf(tx)] # ZeroHash

\* C10: a record, once created, keeps its depositor, amount, vault and
\* revealedAt; its sweptAt changes only from unset to set; it is never
\* deleted.
C10_RecordsFixed ==
    [][ \A k \in DOMAIN deposits :
          /\ k \in DOMAIN deposits'
          /\ deposits'[k].depositor = deposits[k].depositor
          /\ deposits'[k].amount = deposits[k].amount
          /\ deposits'[k].vault = deposits[k].vault
          /\ deposits'[k].revealedAt = deposits[k].revealedAt
          /\ deposits[k].sweptAt # 0
               => deposits'[k].sweptAt = deposits[k].sweptAt ]_vars

\* C11: revealedAt is a faithful existence marker: every record created by a
\* successful reveal has revealedAt # 0 (and no other slot has), whatever
\* the time of the call.
C11_RevealedAtMarksExistence ==
    \A k \in DepositKeys :
      k \in DOMAIN deposits <=> DepositAt(deposits, k).revealedAt # 0

\* C12: in a successful sweep of a wallet that has a pointer, every input
\* that is not a deposit (the input accepted as the previous sweep output)
\* spends output 0, the single output, of the claimed previous sweep
\* transaction.
C12_PreviousSweepOutpoint ==
    \A tx \in AllSweepTxs : \A p \in PreviousSweepClaims(tx) :
      LET r == Outcome(tx, p) IN
      (r.err = OK /\ sweeps[r.walletPubKeyHash] # ZeroHash) =>
        \A i \in DOMAIN r.inputs :
          DepositKey(r.inputs[i].inputTxHash, r.inputs[i].inputTxIndex)
              \notin Range(r.keys)
            => r.inputs[i]
                 = [inputTxHash |-> p.txHash, inputTxIndex |-> 0]

\* C13: a sweep of a wallet that has a pointer, with claimed previous sweep
\* data matching the pointer and with distinct registered unswept deposits
\* as its only inputs, fails with MissingPreviousSweepInput.
C13_MissingPreviousSweepInput ==
    \A tx \in SweepTxs : \A p \in PreviousSweepClaims(tx) :
      ( /\ sweeps[WalletOf(tx)] # ZeroHash
        /\ sweeps[WalletOf(tx)] = SweepHash(p.txHash, p.txOutputValue)
        /\ \A i \in DOMAIN tx.inputs :
             LET in == parseTxInputAt(tx.inputs[i])
                 d == DepositAt(deposits,
                                DepositKey(in.inputTxHash, in.inputTxIndex))
             IN d.revealedAt # 0 /\ d.sweptAt = 0
        /\ \A i, j \in DOMAIN tx.inputs :
             tx.inputs[i] = tx.inputs[j] => i = j )
      => Outcome(tx, p).err = "MissingPreviousSweepInput"

\* The class of input i of a sweep transaction under the claimed previous
\* sweep p: "deposit" when its outpoint has a record in the registry,
\* "previous" when it is the first other input spending the transaction of
\* the wallet's previous sweep, and "other" in every other case.
InputClass(tx, p, i) ==
    LET ins == [j \in DOMAIN tx.inputs |-> parseTxInputAt(tx.inputs[j])]
        registered(j) ==
            DepositKey(ins[j].inputTxHash, ins[j].inputTxIndex)
              \in DOMAIN deposits
        spendsPrevious(j) ==
            /\ ~registered(j)
            /\ sweeps[WalletOf(tx)] # ZeroHash
            /\ ins[j].inputTxHash = p.txHash
    IN IF registered(i) THEN "deposit"
       ELSE IF spendsPrevious(i) /\ \A j \in 1..(i - 1) : ~spendsPrevious(j)
       THEN "previous"
       ELSE "other"

\* C14: a sweep that passes the proof, output and previous-sweep data checks
\* fails with UnknownInputOrigin only if one of its inputs is neither a
\* registered deposit nor the not yet matched previous sweep output, and it
\* fails whenever it has such an input.
C14_InputClassification ==
    \A tx \in SweepTxs : \A p \in PreviousSweepClaims(tx) :
      LET r == Outcome(tx, p)
          others == { i \in DOMAIN tx.inputs : InputClass(tx, p, i) = "other" }
      IN
      (sweeps[WalletOf(tx)] # ZeroHash
         => sweeps[WalletOf(tx)] = SweepHash(p.txHash, p.txOutputValue))
      => /\ others = {} => r.err # "UnknownInputOrigin"
         /\ others # {}
              => r.err \in {"UnknownInputOrigin", "DepositAlreadySwept"}

\* C15: for a transaction whose output pays a wallet without a pointer, the
\* outcome of sweep, its credits and the storage it leaves are the same for
\* every value of the previousSweep argument.
C15_FirstSweepIgnoresClaim ==
    \A tx \in AllSweepTxs :
      sweeps[WalletOf(tx)] = ZeroHash =>
        \A p \in SweepInfos :
          Outcome(tx, p) = Outcome(tx, SweepInfo(ZeroHash, 0))

\* A first sweep of a wallet succeeds with claimed previous sweep data
\* other than the empty data.
C15_Witness ==
    \E tx \in AllSweepTxs : \E p \in PreviousSweepClaims(tx) :
      /\ sweeps[WalletOf(tx)] = ZeroHash
      /\ p # SweepInfo(ZeroHash, 0)
      /\ Outcome(tx, p).err = OK
      /\ \E w \in Wallets : sweeps[w] # ZeroHash

\* C16: a sweep succeeds only if the script of its single output is P2PKH or
\* P2WPKH.
C16_SingleKeyPayoutOnly ==
    \A tx \in AllSweepTxs : \A p \in PreviousSweepClaims(tx) :
      Outcome(tx, p).err = OK =>
        /\ Len(tx.outputs) = 1
        /\ tx.outputs[1].kind \in {"P2PKH", "P2WPKH"}

\* C17: a sweep transaction with well-formed vectors and a valid proof whose
\* output vector does not hold exactly one output fails with
\* MultiOutputSweepUnsupported; no deposit was marked swept and the storage
\* is unchanged.
C17_MultiOutputRejected ==
    \A tx \in AllSweepTxs : \A p \in PreviousSweepClaims(tx) :
      LET r == Outcome(tx, p) IN
      (tx.vinValid /\ tx.voutValid /\ Len(tx.outputs) # 1) =>
        /\ r.err = "MultiOutputSweepUnsupported"
        /\ r.marked = 0
        /\ r.deposits = deposits
        /\ r.sweeps = sweeps
        /\ r.keys = <<>>

\* A transaction with two outputs is submitted in a state where the same
\* inputs with the first output alone make a successful sweep.
C17_Witness ==
    /\ \E tx \in AllSweepTxs :
         /\ Len(tx.outputs) = 2
         /\ tx.inputs = ProofTestTx.inputs
         /\ Outcome(tx, SweepInfo(ZeroHash, 0)).err
              = "MultiOutputSweepUnsupported"
    /\ Outcome(ProofTestTx, SweepInfo(ZeroHash, 0)).err = OK

\* C18: vaults are untrusted initially; in every state a reveal naming a
\* non-zero vault that is not trusted fails with UntrustedVault, whatever
\* its other arguments, and stores nothing, a reveal succeeds only with the
\* zero vault or a trusted vault, and setVaultStatus called by another
\* account than the owner changes nothing; a step that changes the trust of
\* a vault is a setVaultStatus call of the owner and leaves the deposits and
\* the sweep pointers unchanged.
C18_VaultTrust ==
    /\ isVaultTrusted = [v \in Vaults |-> FALSE]
    /\ [](/\ \A call \in RevealCalls :
               LET r == RevealOutcome(call)
                   vault == call.reveal.vault
               IN
               /\ (vault # ZeroAddress /\ ~isVaultTrusted[vault]) =>
                    r.err = "UntrustedVault" /\ r.deposits = deposits
               /\ r.err = OK => vault = ZeroAddress \/ isVaultTrusted[vault]
          /\ \A caller \in Callers \ {Owner}, v \in Vaults, b \in BOOLEAN :
               setVaultStatus(State, caller, v, b) = isVaultTrusted)
    /\ [][ isVaultTrusted' # isVaultTrusted =>
             /\ deposits' = deposits
             /\ sweeps' = sweeps
             /\ credited' = credited
             /\ \E v \in Vaults, b \in BOOLEAN :
                  isVaultTrusted' = setVaultStatus(State, Owner, v, b) ]_vars

\* A deposit was revealed with a vault while it was trusted; the trust was
\* withdrawn and a reveal with that vault now fails with UntrustedVault,
\* while the same reveal with the zero vault succeeds.
C18_Witness ==
    /\ \E k \in DOMAIN deposits : deposits[k].vault \in Vaults
    /\ \E call \in RevealCalls :
         /\ call.reveal.vault \in Vaults
         /\ ~isVaultTrusted[call.reveal.vault]
         /\ RevealOutcome(call).err = "UntrustedVault"
         /\ RevealOutcome([call EXCEPT !.reveal.vault = ZeroAddress]).err = OK

\* C19: for a reveal with an accepted vault and an existing funding output:
\* it succeeds only if the output carries a 20-byte hash equal to the
\* hash160 of the script rebuilt from the reveal, or a 32-byte hash equal to
\* its hash256; a hash of another length fails with
\* UnsupportedScriptHashLength and a hash of 20 or 32 bytes that differs
\* fails with ScriptHashMismatch; a failing reveal creates no record.
C19_ScriptHashCheck ==
    \A call \in RevealCalls :
      LET r == RevealOutcome(call)
          reveal == call.reveal
          outputs == call.fundingTx.outputs
          output == outputs[reveal.fundingOutputIndex + 1]
          length == ExtractHashLength(output)
          script == ExpectedScript(reveal)
          matches ==
              \/ length = 20 /\ output.payload = <<"hash160", script>>
              \/ length = 32 /\ output.payload = <<"hash256", script>>
      IN
      /\ r.err # OK => r.deposits = deposits
      /\ ( /\ reveal.vault = ZeroAddress \/ isVaultTrusted[reveal.vault]
           /\ reveal.fundingOutputIndex < Len(outputs) ) =>
           /\ r.err = OK => matches
           /\ length \notin {20, 32} =>
                r.err = "UnsupportedScriptHashLength"
           /\ (length \in {20, 32} /\ ~matches) =>
                r.err = "ScriptHashMismatch"

\* In one state a reveal of a P2SH funding output succeeds (20-byte hash), a
\* reveal of a P2WSH funding output succeeds (32-byte hash), one fails for a
\* mismatch and one for the length of the hash.
C19_Witness ==
    /\ \E call \in RevealCalls :
         /\ RevealOutcome(call).err = OK
         /\ ExtractHashLength(call.fundingTx.outputs[
                                call.reveal.fundingOutputIndex + 1]) = 20
    /\ \E call \in RevealCalls :
         /\ RevealOutcome(call).err = OK
         /\ ExtractHashLength(call.fundingTx.outputs[
                                call.reveal.fundingOutputIndex + 1]) = 32
    /\ \E call \in RevealCalls :
         RevealOutcome(call).err = "ScriptHashMismatch"
    /\ \E call \in RevealCalls :
         /\ call.reveal.vault \in Vaults
         /\ isVaultTrusted[call.reveal.vault]
         /\ RevealOutcome(call).err = "UnsupportedScriptHashLength"

\* C20: a proof whose merkle proof does not link the transaction hash to the
\* merkle root of the first header fails with InvalidMerkleProof; with a
\* valid merkle proof, a first header of the current or previous epoch and
\* a valid header chain, it fails with InsufficientAccumulatedWork when the
\* accumulated difficulty is below the required multiple and succeeds
\* otherwise; a sweep whose proof fails has that failure as its outcome and
\* changes nothing.
C20_SpvOutcome ==
    \A proof \in Proofs :
      LET v == checkProofFromTxHash(proof)
          r == sweep(State, ProofTestTx, proof, SweepInfo(ZeroHash, 0), now)
          epochKnown ==
              proof.firstHeaderDiff
                \in {CurrentEpochDifficulty, PrevEpochDifficulty}
          validChain ==
              proof.observedDiff
                \notin {ErrBadLength, ErrInvalidChain, ErrLowWork}
          required == proof.firstHeaderDiff * TxProofDifficultyFactor
      IN
      /\ ~proof.merkleValid => v = "InvalidMerkleProof"
      /\ (proof.merkleValid /\ epochKnown /\ validChain) =>
           IF proof.observedDiff < required
           THEN v = "InsufficientAccumulatedWork"
           ELSE v = OK
      /\ v # OK =>
           /\ r.err = v
           /\ r.deposits = deposits
           /\ r.sweeps = sweeps
           /\ r.keys = <<>>

\* A sweep that succeeds with a valid proof is rejected with a proof of
\* insufficient accumulated work and with one whose merkle proof is invalid.
C20_Witness ==
    /\ sweep(State, ProofTestTx, ValidProof, SweepInfo(ZeroHash, 0), now).err
         = OK
    /\ \E proof \in Proofs :
         sweep(State, ProofTestTx, proof, SweepInfo(ZeroHash, 0), now).err
           = "InsufficientAccumulatedWork"
    /\ \E proof \in Proofs :
         /\ proof.firstHeaderDiff = CurrentEpochDifficulty
         /\ proof.observedDiff = ValidProof.observedDiff
         /\ sweep(State, ProofTestTx, proof, SweepInfo(ZeroHash, 0), now).err
              = "InvalidMerkleProof"

\* C21: the difficulty evaluation fails with StaleOrFutureDifficulty when the
\* difficulty of the first header is neither the current nor the previous
\* epoch difficulty of the relay; otherwise the required difficulty is the
\* epoch difficulty the first header matched, and the evaluation succeeds
\* exactly when the header chain is valid and its accumulated difficulty is
\* at least the required difficulty times txProofDifficultyFactor; a failed
\* evaluation is the outcome of the sweep.
C21_DifficultyEvaluation ==
    \A proof \in Proofs :
      LET v == evaluateProofDifficulty(proof)
          first == proof.firstHeaderDiff
          validChain ==
              proof.observedDiff
                \notin {ErrBadLength, ErrInvalidChain, ErrLowWork}
          enough(required) ==
              proof.observedDiff >= required * TxProofDifficultyFactor
      IN
      /\ first \notin {CurrentEpochDifficulty, PrevEpochDifficulty}
           => v = "StaleOrFutureDifficulty"
      /\ first = CurrentEpochDifficulty
           => (v = OK <=> validChain /\ enough(CurrentEpochDifficulty))
      /\ (first = PrevEpochDifficulty /\ first # CurrentEpochDifficulty)
           => (v = OK <=> validChain /\ enough(PrevEpochDifficulty))
      /\ (first \in {CurrentEpochDifficulty, PrevEpochDifficulty}
            /\ validChain /\ v # OK)
           => v = "InsufficientAccumulatedWork"
      /\ (proof.merkleValid /\ v # OK)
           => sweep(State, ProofTestTx, proof, SweepInfo(ZeroHash, 0),
                    now).err = v

\* A sweep is accepted with a proof whose first header has the previous
\* epoch difficulty and whose accumulated difficulty is exactly the required
\* one, and is rejected with the same accumulated difficulty for a first
\* header of the current epoch.
C21_Witness ==
    /\ \E proof \in Proofs :
         /\ proof.firstHeaderDiff = PrevEpochDifficulty
         /\ proof.observedDiff = PrevEpochDifficulty * TxProofDifficultyFactor
         /\ sweep(State, ProofTestTx, proof, SweepInfo(ZeroHash, 0), now).err
              = OK
    /\ \E proof \in Proofs :
         /\ proof.firstHeaderDiff = CurrentEpochDifficulty
         /\ proof.observedDiff = PrevEpochDifficulty * TxProofDifficultyFactor
         /\ sweep(State, ProofTestTx, proof, SweepInfo(ZeroHash, 0), now).err
              = "InsufficientAccumulatedWork"

\* The inputs of a transaction that spend an outpoint with a record in the
\* registry, in the order of the transaction.
DepositInputs(tx) ==
    SelectSeq([i \in DOMAIN tx.inputs |-> parseTxInputAt(tx.inputs[i])],
              LAMBDA in :
                DepositKey(in.inputTxHash, in.inputTxIndex)
                  \in DOMAIN deposits)

\* C22: the Bank.increaseBalances call of a successful sweep has one entry
\* per deposit input, in the order of the inputs: the depositor of the
\* deposit and its amount minus the fee share; a failed sweep makes no
\* call.
C22_CreditArrays ==
    \A tx \in AllSweepTxs : \A p \in PreviousSweepClaims(tx) :
      LET r == Outcome(tx, p)
          ins == DepositInputs(tx)
          record(i) ==
              DepositAt(deposits,
                        DepositKey(ins[i].inputTxHash, ins[i].inputTxIndex))
          previousValue ==
              IF sweeps[WalletOf(tx)] # ZeroHash THEN p.txOutputValue ELSE 0
          fee == SumSeq([i \in DOMAIN ins |-> record(i).amount])
                   + previousValue - ExtractValue(tx.outputs[1])
          feeShare == fee \div Len(ins)
      IN
      /\ r.err = OK =>
           /\ Len(r.depositors) = Len(ins)
           /\ Len(r.amounts) = Len(ins)
           /\ \A i \in DOMAIN ins :
                /\ r.depositors[i] = record(i).depositor
                /\ r.amounts[i] = record(i).amount - feeShare
      /\ r.err # OK => r.depositors = <<>> /\ r.amounts = <<>>

\* A sweep of two deposits of different depositors succeeds, the deposit of
\* depositor 12 being its first input.
C22_Witness ==
    \E tx \in AllSweepTxs : \E p \in PreviousSweepClaims(tx) :
      LET r == Outcome(tx, p) IN
      r.err = OK /\ r.depositors = <<12, 11>>

\* The claims a caller can make about the previous sweep, the stored
\* pointer's pre-image or not.
AnyPreviousSweep == SweepInfos \cup {SweepInfo(ZeroHash, 0)}

\* The sweep chain of a wallet has reached the transaction hash h: the
\* pointer of the wallet is set, to a sweep transaction hashed no earlier
\* than h.
ChainReachedIn(pointers, walletPubKeyHash, h) ==
    /\ pointers[walletPubKeyHash] # ZeroHash
    /\ \E p \in SweepInfos :
         /\ pointers[walletPubKeyHash] = SweepHash(p.txHash, p.txOutputValue)
         /\ p.txHash >= h

\* C23: a sweep transaction is proven at most once.  The pointers a
\* successful sweep with tx leaves have the chain of its wallet at tx, no
\* step takes a chain back, and while the chain has reached tx every sweep
\* call with tx fails, whatever previous-sweep data is supplied: so every
\* sweep call with tx after a successful one fails.
C23_ProvenAtMostOnce ==
    /\ [](\A tx \in AllSweepTxs :
            /\ \A p \in PreviousSweepClaims(tx) :
                 LET r == Outcome(tx, p) IN
                 r.err = OK => ChainReachedIn(r.sweeps, WalletOf(tx), tx.hash)
            /\ ChainReachedIn(sweeps, WalletOf(tx), tx.hash) =>
                 \A p \in AnyPreviousSweep :
                   sweep(State, tx, ValidProof, p, now).err # OK)
    /\ [][\A w \in Wallets, h \in SweepTxHashes :
            ChainReachedIn(sweeps, w, h) => ChainReachedIn(sweeps', w, h)]_vars

\* A transaction was swept at the instant the 32-bit timestamp is zero:
\* its deposit is credited and carries no sweep time, the pointer of its
\* wallet is the hash of its output, and every further sweep call with it
\* fails.
C23_Witness ==
    \E tx \in SweepTxs :
      /\ sweeps[WalletOf(tx)] =
           SweepHash(tx.hash, ExtractValue(tx.outputs[1]))
      /\ \A i \in DOMAIN tx.inputs :
           LET in == parseTxInputAt(tx.inputs[i])
               key == DepositKey(in.inputTxHash, in.inputTxIndex)
           IN
           /\ key \in credited
           /\ DepositAt(deposits, key).sweptAt = 0
      /\ \A p \in AnyPreviousSweep :
           sweep(State, tx, ValidProof, p, now).err # OK

\* Two different sweep transactions of one wallet that spend the output of
\* the sweep p claims, the wallet having a sweep pointer.
Competing(txA, txB, p) ==
    /\ txA # txB
    /\ WalletOf(txA) = WalletOf(txB)
    /\ sweeps[WalletOf(txA)] # ZeroHash
    /\ \A tx \in {txA, txB} :
         \E i \in DOMAIN tx.inputs :
           parseTxInputAt(tx.inputs[i]).inputTxHash = p.txHash

\* C24: of two different sweep transactions of one wallet built on the same
\* previous sweep output and submitted with the same previous-sweep data,
\* at most one succeeds, in either order: once one succeeded, the call with
\* the other, at that time or later, fails; when it would have succeeded
\* before, it fails on the updated pointer.
C24_CompetingSweeps ==
    \A txA \in SweepTxs : \A p \in PreviousSweepClaims(txA) :
      LET first == Outcome(txA, p) IN
      first.err = OK =>
        \A txB \in SweepTxs :
          Competing(txA, txB, p) =>
            \A t \in Timestamps :
              TimeLeq(now, t) =>
                LET after == [State EXCEPT !.deposits = first.deposits,
                                           !.sweeps = first.sweeps]
                    second == sweep(after, txB, ValidProof, p, t)
                IN
                /\ second.err # OK
                /\ Outcome(txB, p).err = OK =>
                     second.err = "InvalidPreviousSweepData"

\* Two competing sweep transactions that would both succeed in the current
\* state with the same previous-sweep data.
C24_Witness ==
    \E txA, txB \in SweepTxs : \E p \in PreviousSweepClaims(txA) :
      /\ Competing(txA, txB, p)
      /\ Outcome(txA, p).err = OK
      /\ Outcome(txB, p).err = OK

\* The outpoint hash the Bridge reads in an input: the digest when the
\* assembler wrote the hash in the byte order of the serialization, the
\* number the reversed bytes stand for otherwise.
OutpointHash(hash) ==
    IF hash.order = "internal" THEN hash.digest ELSE 16777216 * hash.digest

\* The assembled transaction as it is submitted to the Bridge
\* (decomposeRawTransaction), h being its hash256.
SubmittedSweepTx(transaction, h) ==
    SweepTx(h,
      [i \in DOMAIN transaction.ins |->
         TxInput(OutpointHash(transaction.ins[i].hash),
                 transaction.ins[i].index)],
      [i \in DOMAIN transaction.outs |->
         TxOutput(transaction.outs[i].value, transaction.outs[i].script.kind,
                  transaction.outs[i].script.payload)])

\* The reveals of the deposits that are revealed and not swept: the deposit
\* has a record made from the reveal, and was credited by no sweep.
SweepableReveals ==
    { call \in RevealCalls :
        LET index == call.reveal.fundingOutputIndex
            key == DepositKey(TxHash(call.fundingTx), index)
            record == DepositAt(deposits, key)
        IN
        /\ key \in DOMAIN deposits
        /\ key \notin credited
        /\ index < Len(call.fundingTx.outputs)
        /\ ScriptHashCheck(call.fundingTx.outputs[index + 1],
                           ExpectedScript(call.reveal)) = OK
        /\ record.depositor = call.reveal.depositor
        /\ record.vault = call.reveal.vault }

\* The UTXO of a revealed deposit, and its deposit data.
UtxoOf(call) ==
    LET index == call.reveal.fundingOutputIndex IN
    [transactionHash |-> TransactionHashFrom(TxHash(call.fundingTx)),
     outputIndex |-> index,
     value |-> ExtractValue(call.fundingTx.outputs[index + 1]),
     transactionHex |-> call.fundingTx]

DepositOf(call) ==
    LET index == call.reveal.fundingOutputIndex IN
    [depositor |-> call.reveal.depositor,
     amount |-> ExtractValue(call.fundingTx.outputs[index + 1]),
     walletPublicKeyHash |-> call.reveal.walletPubKeyHash,
     blindingFactor |-> call.reveal.blindingFactor,
     refundPublicKeyHash |-> call.reveal.refundPubKeyHash,
     refundLocktime |-> call.reveal.refundLocktime,
     vault |-> call.reveal.vault]

\* Lists of different sweepable deposits.
SweepableLists ==
    { calls \in SeqsUpTo(SweepableReveals, MaxUtxos) :
        \A i, j \in DOMAIN calls : i # j => calls[i] # calls[j] }

\* The main UTXO of a wallet: nothing when the wallet has no sweep pointer,
\* else output 0 of the last proven sweep, whose script pays the wallet.
MainUtxoOf(wallet) ==
    IF sweeps[wallet] = ZeroHash THEN { <<>> }
    ELSE { << [transactionHash |-> TransactionHashFrom(p.txHash),
               outputIndex |-> 0, value |-> p.txOutputValue,
               transactionHex |->
                 PreviousSweepTx(p.txHash, p.txOutputValue, kind, wallet)] >> :
             p \in { q \in SweepInfos :
                       SweepHash(q.txHash, q.txOutputValue) = sweeps[wallet] },
             kind \in {"P2WPKH", "P2PKH", "P2SH"} }

\* The assembler calls of the wallets over sweepable deposits and the main
\* UTXO of the wallet.
SweepAssemblies ==
    UNION { { [fee |-> fee, walletKeyPair |-> key, witness |-> witness,
               utxos |-> [i \in DOMAIN calls |-> UtxoOf(calls[i])],
               deposits |-> [i \in DOMAIN calls |-> DepositOf(calls[i])],
               mainUtxo |-> main] :
                fee \in Fees, witness \in BOOLEAN, calls \in SweepableLists,
                main \in MainUtxoOf(computeHash160(key.publicKey)) } :
            key \in WalletKeys }

\* The checks of the Sweep Processor on the transaction of a successful
\* assembly, submitted with the main UTXO as previous sweep data.
ProcessorAccepts(call, h) ==
    LET r == Assembled(call)
        wallet == computeHash160(call.walletKeyPair.publicKey)
        tx == SubmittedSweepTx(r.returned[1].rawTransaction, h)
        previousSweep ==
            IF call.mainUtxo = <<>> THEN SweepInfo(ZeroHash, 0)
            ELSE SweepInfo(call.mainUtxo[1].transactionHash.digest,
                           call.mainUtxo[1].value)
        out == processSweepTxOutput(tx.outputs)
        in == processSweepTxInputs(deposits, tx.inputs,
                ResolvePreviousSweep(sweeps[wallet], previousSweep), now)
    IN
    /\ validateSweepTxProof(tx, ValidProof) = OK
    /\ out.err = OK
    /\ out.walletPubKeyHash = wallet
    /\ sweeps[wallet] # ZeroHash =>
         PreviousSweepMatches(sweeps[wallet], previousSweep)
    /\ in.err = OK
    /\ in.inputsValue - out.value = call.fee

\* C25: the transaction of a successful assembly over revealed, unswept
\* deposits and the main UTXO of the wallet's sweep pointer (none without a
\* pointer) passes the output, previous-sweep and input checks of the Sweep
\* Processor, which computes the fee given to the assembler.
C25_AssemblerCompatible ==
    \A call \in SweepAssemblies :
      Assembled(call).err = OK =>
        \A h \in SweepTxHashes : ProcessorAccepts(call, h)

\* C26: assemble fails, returning no transaction, when the list of deposit
\* UTXOs is empty or as long as the list of deposit data it is not; an
\* empty list is reported as such also when the lengths differ.
C26_InputSetChecks ==
    assembled # <<>> =>
      LET call == assembleCall
          r == assembled[1]
      IN
      /\ Len(call.utxos) = 0 =>
           r.err = "NoDepositUtxo" /\ r.returned = <<>>
      /\ (Len(call.utxos) > 0 /\ Len(call.utxos) # Len(call.deposits)) =>
           r.err = "UtxoDepositCountMismatch" /\ r.returned = <<>>

\* A call without UTXOs and with deposit data failed on the empty list.
C26_Witness ==
    /\ assembled # <<>>
    /\ Len(assembleCall.utxos) = 0
    /\ Len(assembleCall.deposits) > 0
    /\ assembled[1].err = "NoDepositUtxo"
    /\ assembled[1].returned = <<>>

\* The input signs for the given deposit: its script or its witness is a
\* signature over the input at inputIndex, the public key and the deposit
\* script of the deposit.
SignedForDeposit(in, inputIndex, deposit) ==
    LET stack == IF in.script # <<>> THEN in.script ELSE in.witness IN
    /\ Len(stack) = 3
    /\ stack[1][1] = "signature"
    /\ stack[1][3][3] = inputIndex
    /\ stack[1][3][4] = assembleDepositScript(deposit)
    /\ stack[3] = assembleDepositScript(deposit)

\* C27: the inputs of an assembled transaction are the main UTXO, when
\* there is one, and then the deposit UTXOs in the order of the call: the
\* input of deposit UTXO i comes i-th after the main UTXO input, spends the
\* outpoint of UTXO i and is signed with deposit data i.
C27_InputOrder ==
    (assembled # <<>> /\ assembled[1].err = OK) =>
      LET call == assembleCall
          ins == assembled[1].returned[1].rawTransaction.ins
          offset == Len(call.mainUtxo)
      IN
      /\ Len(ins) = Len(call.utxos) + offset
      /\ \A i \in DOMAIN call.mainUtxo :
           /\ ins[i].hash = ReverseHash(call.mainUtxo[i].transactionHash)
           /\ ins[i].index = call.mainUtxo[i].outputIndex
      /\ \A i \in DOMAIN call.utxos :
           /\ ins[i + offset].hash = ReverseHash(call.utxos[i].transactionHash)
           /\ ins[i + offset].index = call.utxos[i].outputIndex
           /\ SignedForDeposit(ins[i + offset], i + offset - 1,
                               call.deposits[i])

\* A transaction was assembled from a main UTXO and two deposit UTXOs.
C27_Witness ==
    /\ assembled # <<>>
    /\ assembled[1].err = OK
    /\ assembleCall.mainUtxo # <<>>
    /\ Len(assembleCall.utxos) = 2
    /\ Len(assembled[1].returned[1].rawTransaction.ins) = 3

\* C28: an assembled transaction has one output, which pays the address of
\* the wallet key (P2WPKH with the witness flag, P2PKH without) the sum of
\* the values of the main UTXO and the deposit UTXOs minus the fee; the
\* returned main UTXO is output 0 of the transaction, with that value.
C28_SingleOutput ==
    (assembled # <<>> /\ assembled[1].err = OK) =>
      LET call == assembleCall
          returned == assembled[1].returned[1]
          outs == returned.rawTransaction.outs
          value ==
              SumSeq([i \in DOMAIN call.mainUtxo |-> call.mainUtxo[i].value])
                + SumSeq([i \in DOMAIN call.utxos |-> call.utxos[i].value])
                - call.fee
      IN
      /\ Len(outs) = 1
      /\ outs[1].script =
           [kind |-> IF call.witness THEN "P2WPKH" ELSE "P2PKH",
            payload |-> computeHash160(call.walletKeyPair.publicKey)]
      /\ outs[1].value = value
      /\ returned.transactionHash = TransactionId(returned.rawTransaction)
      /\ returned.newMainUtxo =
           [transactionHash |-> returned.transactionHash, outputIndex |-> 0,
            value |-> value]

\* A transaction was assembled from a main UTXO and a deposit UTXO, with a
\* fee, for a legacy address.
C28_Witness ==
    /\ assembled # <<>>
    /\ assembled[1].err = OK
    /\ assembleCall.mainUtxo # <<>>
    /\ assembleCall.fee > 0
    /\ ~assembleCall.witness
    /\ assembled[1].returned[1].newMainUtxo.value > 0

\* The checks before the deposit inputs pass: the input set, the output
\* value and the ownership of the main UTXO.
ReachesDepositInputs(call) ==
    /\ Len(call.utxos) >= 1
    /\ Len(call.utxos) = Len(call.deposits)
    /\ SumSeq([i \in DOMAIN call.mainUtxo |-> call.mainUtxo[i].value])
         + SumSeq([i \in DOMAIN call.utxos |-> call.utxos[i].value])
         >= call.fee
    /\ \A i \in DOMAIN call.mainUtxo :
         LET main == call.mainUtxo[i]
             outputs == main.transactionHex.outputs
         IN
         /\ main.outputIndex < Len(outputs)
         /\ outputs[main.outputIndex + 1].kind \in {"P2PKH", "P2WPKH"}
         /\ outputs[main.outputIndex + 1].payload =
              computeHash160(call.walletKeyPair.publicKey)

\* The output deposit UTXO i spends exists in its raw transaction and is a
\* P2SH or a P2WSH output.
SupportedDepositUtxo(call, i) ==
    LET utxo == call.utxos[i] IN
    /\ utxo.outputIndex < Len(utxo.transactionHex.outputs)
    /\ utxo.transactionHex.outputs[utxo.outputIndex + 1].kind
         \in {"P2SH", "P2WSH"}

\* The value of the output deposit UTXO i spends, as its raw transaction
\* carries it.
SpentValue(call, i) ==
    LET utxo == call.utxos[i] IN
    ExtractValue(utxo.transactionHex.outputs[utxo.outputIndex + 1])

AmountDiffers(call, i) == SpentValue(call, i) # call.deposits[i].amount

WalletKeyDiffers(call, i) ==
    computeHash160(call.walletKeyPair.publicKey)
      # call.deposits[i].walletPublicKeyHash

\* Deposit input i passes its checks.
DepositInputPasses(call, i) ==
    /\ SupportedDepositUtxo(call, i)
    /\ ~AmountDiffers(call, i)
    /\ ~WalletKeyDiffers(call, i)

\* C29 as stated: assemble fails with AmountMismatch whenever the value of
\* a deposit UTXO differs from the amount of its deposit data.
C29_AmountMismatchWhenever ==
    assembled # <<>> =>
      ((\E i \in DOMAIN assembleCall.utxos \cap DOMAIN assembleCall.deposits :
          assembleCall.utxos[i].value # assembleCall.deposits[i].amount)
        => assembled[1].err = "AmountMismatch"
             /\ assembled[1].returned = <<>>)

\* C29, amended: the amount compared is the value of the spent output in
\* the raw transaction of the UTXO.  When it differs from the amount of
\* the deposit data for some deposit UTXO, assemble returns no transaction;
\* the error is AmountMismatch when the checks before the deposit inputs
\* and the earlier deposit inputs pass and the spent output is P2SH or
\* P2WSH, and AmountMismatch is reported in no other case.
C29_AmountMismatch ==
    assembled # <<>> =>
      LET call == assembleCall
          r == assembled[1]
          both == DOMAIN call.utxos \cap DOMAIN call.deposits
      IN
      /\ (\E i \in both :
            /\ SupportedDepositUtxo(call, i)
            /\ AmountDiffers(call, i)) =>
           r.err # OK /\ r.returned = <<>>
      /\ (/\ ReachesDepositInputs(call)
          /\ \E i \in both :
               /\ \A j \in 1..(i - 1) : DepositInputPasses(call, j)
               /\ SupportedDepositUtxo(call, i)
               /\ AmountDiffers(call, i)) =>
           r.err = "AmountMismatch"
      /\ r.err = "AmountMismatch" =>
           /\ ReachesDepositInputs(call)
           /\ \E i \in both :
                SupportedDepositUtxo(call, i) /\ AmountDiffers(call, i)

\* The second deposit input of a call with a main UTXO failed the amount
\* check.
C29_Witness ==
    /\ assembled # <<>>
    /\ assembled[1].err = "AmountMismatch"
    /\ assembled[1].returned = <<>>
    /\ assembleCall.mainUtxo # <<>>
    /\ Len(assembleCall.utxos) = 2
    /\ DepositInputPasses(assembleCall, 1)
    /\ AmountDiffers(assembleCall, 2)

\* C30 as stated: assemble fails with WalletKeyMismatch whenever the
\* HASH160 of the public key of the signing key differs from the wallet
\* public key hash of some deposit data.
C30_WalletKeyMismatchWhenever ==
    assembled # <<>> =>
      ((\E i \in DOMAIN assembleCall.deposits :
          WalletKeyDiffers(assembleCall, i))
        => assembled[1].err = "WalletKeyMismatch"
             /\ assembled[1].returned = <<>>)

\* C30, amended: when the HASH160 of the public key of the signing key
\* differs from the wallet public key hash of some deposit data, assemble
\* returns no transaction; the error is WalletKeyMismatch when the checks
\* before the deposit inputs and the earlier deposit inputs pass and the
\* UTXO of that deposit passes the script type and amount checks, and
\* WalletKeyMismatch is reported in no other case.
C30_WalletKeyMismatch ==
    assembled # <<>> =>
      LET call == assembleCall
          r == assembled[1]
          both == DOMAIN call.utxos \cap DOMAIN call.deposits
      IN
      /\ (\E i \in DOMAIN call.deposits : WalletKeyDiffers(call, i)) =>
           r.err # OK /\ r.returned = <<>>
      /\ (/\ ReachesDepositInputs(call)
          /\ \E i \in both :
               /\ \A j \in 1..(i - 1) : DepositInputPasses(call, j)
               /\ SupportedDepositUtxo(call, i)
               /\ ~AmountDiffers(call, i)
               /\ WalletKeyDiffers(call, i)) =>
           r.err = "WalletKeyMismatch"
      /\ r.err = "WalletKeyMismatch" =>
           /\ ReachesDepositInputs(call)
           /\ \E i \in both :
                /\ SupportedDepositUtxo(call, i)
                /\ ~AmountDiffers(call, i)
                /\ WalletKeyDiffers(call, i)

\* The second deposit input of a call failed the wallet key check, its
\* amount being the amount of the UTXO.
C30_Witness ==
    /\ assembled # <<>>
    /\ assembled[1].err = "WalletKeyMismatch"
    /\ assembled[1].returned = <<>>
    /\ Len(assembleCall.utxos) = 2
    /\ DepositInputPasses(assembleCall, 1)
    /\ ~AmountDiffers(assembleCall, 2)
    /\ WalletKeyDiffers(assembleCall, 2)

\* The checks before the signing of the main UTXO input pass: the input
\* set and the output value.
ReachesMainUtxoInput(call) ==
    /\ Len(call.utxos) >= 1
    /\ Len(call.utxos) = Len(call.deposits)
    /\ SumSeq([i \in DOMAIN call.mainUtxo |-> call.mainUtxo[i].value])
         + SumSeq([i \in DOMAIN call.utxos |-> call.utxos[i].value])
         >= call.fee

\* The raw transaction of the main UTXO has the output the UTXO names.
MainUtxoOutputExists(call) ==
    call.mainUtxo[1].outputIndex < Len(call.mainUtxo[1].transactionHex.outputs)

\* The locking script of the main UTXO is the P2PKH or the P2WPKH script
\* of the signing key.
MainUtxoOwned(call) ==
    LET main == call.mainUtxo[1]
        output == main.transactionHex.outputs[main.outputIndex + 1]
    IN
    /\ output.kind \in {"P2PKH", "P2WPKH"}
    /\ output.payload = computeHash160(call.walletKeyPair.publicKey)

\* C31 as stated: with a main UTXO, assemble succeeds only if the locking
\* script of the UTXO is the P2PKH or P2WPKH script of the signing key,
\* and fails with UtxoNotOwnedByWallet otherwise.
C31_NotOwnedWhenever ==
    (assembled # <<>> /\ assembleCall.mainUtxo # <<>>) =>
      IF MainUtxoOutputExists(assembleCall) /\ MainUtxoOwned(assembleCall)
      THEN TRUE
      ELSE /\ assembled[1].err = "UtxoNotOwnedByWallet"
           /\ assembled[1].returned = <<>>

\* C31, amended: with a main UTXO, assemble succeeds only if the locking
\* script of the UTXO is the P2PKH or P2WPKH script of the signing key.
\* The failure is UtxoNotOwnedByWallet, whatever the deposit inputs are,
\* when the input set and output value checks pass and the raw transaction
\* has the output of the UTXO; UtxoNotOwnedByWallet is reported in no
\* other case.
C31_MainUtxoOwnership ==
    (assembled # <<>> /\ assembleCall.mainUtxo # <<>>) =>
      LET call == assembleCall
          r == assembled[1]
          owned == MainUtxoOutputExists(call) /\ MainUtxoOwned(call)
      IN
      /\ r.err = OK => owned
      /\ ~owned => r.returned = <<>>
      /\ (/\ ReachesMainUtxoInput(call)
          /\ MainUtxoOutputExists(call)
          /\ ~MainUtxoOwned(call)) =>
           r.err = "UtxoNotOwnedByWallet"
      /\ r.err = "UtxoNotOwnedByWallet" =>
           /\ ReachesMainUtxoInput(call)
           /\ MainUtxoOutputExists(call)
           /\ ~MainUtxoOwned(call)

\* A call failed on the ownership of its main UTXO, a P2WPKH output of
\* another wallet, although its first deposit input has another amount
\* than its UTXO.
C31_Witness ==
    /\ assembled # <<>>
    /\ assembleCall.mainUtxo # <<>>
    /\ assembled[1].err = "UtxoNotOwnedByWallet"
    /\ assembled[1].returned = <<>>
    /\ assembleCall.mainUtxo[1].transactionHex.outputs[1].kind = "P2WPKH"
    /\ SupportedDepositUtxo(assembleCall, 1)
    /\ AmountDiffers(assembleCall, 1)

\* The kind of the script of the output that input i (from 1, the main
\* UTXO first) of the transaction of the call spends.
SpentScriptKind(call, i) ==
    LET spent == call.mainUtxo \o call.utxos
        utxo == spent[i]
    IN utxo.transactionHex.outputs[utxo.outputIndex + 1].kind

\* C32: every input of an assembled transaction is signed according to the
\* script of the output it spends: a P2PKH main UTXO input and a P2SH
\* deposit input carry a scriptSig and no witness, a P2WPKH main UTXO
\* input and a P2WSH deposit input a witness and no scriptSig, and no
\* input has neither.
C32_SignedByScriptType ==
    (assembled # <<>> /\ assembled[1].err = OK) =>
      LET call == assembleCall
          ins == assembled[1].returned[1].rawTransaction.ins
          offset == Len(call.mainUtxo)
      IN
      \A i \in DOMAIN ins :
        LET kind == SpentScriptKind(call, i) IN
        /\ ins[i].script # <<>> \/ ins[i].witness # <<>>
        /\ kind = (IF i <= offset THEN "P2PKH" ELSE "P2SH") <=>
             (ins[i].script # <<>> /\ ins[i].witness = <<>>)
        /\ kind = (IF i <= offset THEN "P2WPKH" ELSE "P2WSH") <=>
             (ins[i].witness # <<>> /\ ins[i].script = <<>>)

\* A transaction was assembled from a P2WPKH main UTXO, a P2SH deposit
\* UTXO and a P2WSH deposit UTXO.
C32_Witness ==
    /\ assembled # <<>>
    /\ assembled[1].err = OK
    /\ assembleCall.mainUtxo # <<>>
    /\ Len(assembleCall.utxos) = 2
    /\ SpentScriptKind(assembleCall, 1) = "P2WPKH"
    /\ {SpentScriptKind(assembleCall, i) : i \in 2..3} = {"P2SH", "P2WSH"}
    /\ assembled[1].returned[1].rawTransaction.ins[1].witness # <<>>

\* The output deposit UTXO i spends exists in its raw transaction and is
\* neither a P2SH nor a P2WSH output.
UnsupportedDepositUtxo(call, i) ==
    LET utxo == call.utxos[i] IN
    /\ utxo.outputIndex < Len(utxo.transactionHex.outputs)
    /\ utxo.transactionHex.outputs[utxo.outputIndex + 1].kind
         \notin {"P2SH", "P2WSH"}

\* C33 as stated: a deposit UTXO whose previous output script is neither
\* P2SH nor P2WSH makes assemble fail with the unsupported-script-type
\* error.
C33_UnsupportedWhenever ==
    assembled # <<>> =>
      ((\E i \in DOMAIN assembleCall.utxos :
          UnsupportedDepositUtxo(assembleCall, i))
        => /\ assembled[1].err = "UnsupportedScriptType"
           /\ assembled[1].returned = <<>>)

\* C33, amended: a deposit UTXO whose previous output script is neither
\* P2SH nor P2WSH makes assemble fail. The failure is the
\* unsupported-script-type error, whatever the amount and the wallet key
\* of the deposit data of that input are, when the checks before the
\* deposit inputs and the checks of the deposit inputs before it pass; the
\* unsupported-script-type error is reported in no other case.
C33_UnsupportedScriptType ==
    assembled # <<>> =>
      LET call == assembleCall
          r == assembled[1]
          both == DOMAIN call.utxos \cap DOMAIN call.deposits
      IN
      /\ (\E i \in DOMAIN call.utxos : UnsupportedDepositUtxo(call, i)) =>
           r.err # OK /\ r.returned = <<>>
      /\ (/\ ReachesDepositInputs(call)
          /\ \E i \in both :
               /\ \A j \in 1..(i - 1) : DepositInputPasses(call, j)
               /\ UnsupportedDepositUtxo(call, i)) =>
           r.err = "UnsupportedScriptType"
      /\ r.err = "UnsupportedScriptType" =>
           /\ ReachesDepositInputs(call)
           /\ \E i \in both :
                /\ \A j \in 1..(i - 1) : DepositInputPasses(call, j)
                /\ UnsupportedDepositUtxo(call, i)

\* The second deposit input of a call failed on the type of the script it
\* spends, although the amount and the wallet key of its deposit data
\* differ as well.
C33_Witness ==
    /\ assembled # <<>>
    /\ assembled[1].err = "UnsupportedScriptType"
    /\ assembled[1].returned = <<>>
    /\ Len(assembleCall.utxos) = 2
    /\ DepositInputPasses(assembleCall, 1)
    /\ UnsupportedDepositUtxo(assembleCall, 2)
    /\ AmountDiffers(assembleCall, 2)
    /\ WalletKeyDiffers(assembleCall, 2)

\* The value of the output that input i (from 1, the main UTXO first) of
\* the transaction of the call spends, as its raw transaction carries it.
SpentOutputValue(call, i) ==
    LET spent == call.mainUtxo \o call.utxos
        utxo == spent[i]
    IN ExtractValue(utxo.transactionHex.outputs[utxo.outputIndex + 1])

\* C40: the value of the output of an assembled transaction is the sum of
\* the values the spent outputs carry in their raw transactions minus the
\* fee, the value of every UTXO of the call being the value of the output
\* it names in its raw transaction.
C40_OutputValueFromRawTransactions ==
    (assembled # <<>> /\ assembled[1].err = OK) =>
      LET call == assembleCall
          spent == call.mainUtxo \o call.utxos
          outs == assembled[1].returned[1].rawTransaction.outs
      IN
      /\ \A i \in DOMAIN spent : spent[i].value = SpentOutputValue(call, i)
      /\ outs[1].value =
           SumSeq([i \in DOMAIN spent |-> SpentOutputValue(call, i)])
             - call.fee

\* The value of the previous sweep output a sweep of tx with the claim p
\* consumes: the claimed value when the wallet has a sweep pointer, which a
\* successful sweep has matched with the claim, and nothing otherwise.
PreviousSweepValue(tx, p) ==
    IF sweeps[WalletOf(tx)] # ZeroHash THEN p.txOutputValue ELSE 0

\* C36: for a successful sweep with N deposit inputs, of fee
\* (deposit amounts + previous sweep value - output value), the sum of the
\* credits is the sum of the amounts of its deposit inputs minus
\* N * floor(fee / N); it is at most the sum of those amounts, and it
\* exceeds the value added to the wallet (output value - previous sweep
\* value) by fee mod N, a value from 0 to N - 1.
C36_RoundingRemainder ==
    \A tx \in AllSweepTxs : \A p \in PreviousSweepClaims(tx) :
      LET r == Outcome(tx, p)
          N == Len(r.amounts)
          deposited == SumSeq(AmountsOf(r.keys))
          outputValue == ExtractValue(tx.outputs[1])
          added == outputValue - PreviousSweepValue(tx, p)
          fee == deposited - added
          credits == SumSeq(r.amounts)
      IN
      r.err = OK =>
        /\ N = Len(r.keys) /\ N >= 1
        /\ fee >= 0
        /\ r.inputsValue - r.outputValue = fee
        /\ credits = deposited - N * (fee \div N)
        /\ credits <= deposited
        /\ credits - added = fee % N
        /\ credits - added \in 0..(N - 1)

\* A sweep of two deposits succeeds and credits one satoshi more than the
\* value it adds to the wallet.
C36_Witness ==
    \E tx \in AllSweepTxs : \E p \in PreviousSweepClaims(tx) :
      LET r == Outcome(tx, p) IN
      /\ r.err = OK
      /\ Len(r.amounts) = 2
      /\ r.keys[1] # r.keys[2]
      /\ SumSeq(r.amounts)
           = ExtractValue(tx.outputs[1]) - PreviousSweepValue(tx, p) + 1

\* The only input of tx is output 0 of the previous sweep p of the wallet
\* tx pays, p being the pre-image of the sweep pointer of that wallet.
OnlyPreviousSweepInput(tx, p) ==
    /\ Len(tx.outputs) = 1
    /\ WalletOf(tx) \in Wallets
    /\ sweeps[WalletOf(tx)] # ZeroHash
    /\ sweeps[WalletOf(tx)] = SweepHash(p.txHash, p.txOutputValue)
    /\ Len(tx.inputs) = 1
    /\ parseTxInputAt(tx.inputs[1]) =
         [inputTxHash |-> p.txHash, inputTxIndex |-> 0]

\* C37 as stated: a successful sweep has a deposit input, and a sweep whose
\* only input is the previous sweep output is rejected by the division by
\* the deposit count zero and leaves the sweep pointers unchanged.
C37_RejectedByDivision ==
    \A tx \in SweepTxs : \A p \in PreviousSweepClaims(tx) :
      LET r == Outcome(tx, p) IN
      /\ r.err = OK => Len(r.keys) >= 1
      /\ OnlyPreviousSweepInput(tx, p) =>
           r.err = "DivisionByZero" /\ r.sweeps = sweeps

\* C37, amended: a successful sweep has a deposit input, a registered
\* deposit it marks swept and credits. A sweep whose only input is the
\* previous sweep output is rejected in the fee computation and changes
\* neither the sweep pointers nor the deposits: by the division by the
\* deposit count zero when its output value is at most the value of the
\* previous sweep, and by the subtraction before it when its output value
\* is larger.
C37_NoSweepWithoutDeposit ==
    \A tx \in SweepTxs : \A p \in PreviousSweepClaims(tx) :
      LET r == Outcome(tx, p) IN
      /\ r.err = OK =>
           /\ Len(r.keys) >= 1
           /\ r.marked = Len(r.keys)
           /\ Len(r.amounts) = Len(r.keys)
           /\ \A i \in DOMAIN r.keys :
                /\ r.keys[i] \in DOMAIN deposits
                /\ DepositAt(deposits, r.keys[i]).revealedAt # 0
                /\ \E j \in DOMAIN tx.inputs :
                     LET in == parseTxInputAt(tx.inputs[j]) IN
                     r.keys[i] = DepositKey(in.inputTxHash, in.inputTxIndex)
      /\ OnlyPreviousSweepInput(tx, p) =>
           /\ r.err = IF ExtractValue(tx.outputs[1]) > p.txOutputValue
                      THEN "NegativeFee" ELSE "DivisionByZero"
           /\ r.sweeps = sweeps
           /\ r.deposits = deposits
           /\ r.amounts = <<>>

\* A sweep whose only input is the previous sweep output, of a value that
\* covers its output, is rejected by the division.
C37_Witness ==
    \E tx \in SweepTxs : \E p \in PreviousSweepClaims(tx) :
      /\ OnlyPreviousSweepInput(tx, p)
      /\ ExtractValue(tx.outputs[1]) <= p.txOutputValue
      /\ Outcome(tx, p).err = "DivisionByZero"
      /\ Outcome(tx, p).sweeps = sweeps

\* The wallets an outpoint can be revealed for: the wallet public key
\* hashes of the reveals whose script the funding output commits to.
RevealWallets(key) ==
    { call.reveal.walletPubKeyHash :
        call \in { c \in RevealCalls :
                     /\ DepositKey(TxHash(c.fundingTx),
                                   c.reveal.fundingOutputIndex) = key
                     /\ c.reveal.fundingOutputIndex
                          < Len(c.fundingTx.outputs)
                     /\ ScriptHashCheck(
                          c.fundingTx.outputs[c.reveal.fundingOutputIndex + 1],
                          ExpectedScript(c.reveal)) = OK } }

\* tx with its output paid to wallet w.
PaidTo(tx, w) == [tx EXCEPT !.outputs[1].payload = w]

\* C38: a record of the registry has no field for the wallet public key
\* hash of the reveal, and a sweep finds its deposit inputs by outpoint
\* only: a first sweep of a wallet has the same outcome, marks and credits
\* whichever wallet without a pointer its output pays, and a successful
\* sweep sets the pointer of the wallet its output pays, whatever wallet
\* its deposits were revealed for.
C38_MatchedByOutpointOnly ==
    /\ \A key \in DOMAIN deposits :
         DOMAIN deposits[key]
           = {"depositor", "amount", "revealedAt", "vault", "sweptAt"}
    /\ \A tx \in SweepTxs : \A p \in PreviousSweepClaims(tx) :
         LET r == Outcome(tx, p) IN
         /\ r.err = OK =>
              /\ r.sweeps[WalletOf(tx)]
                   = SweepHash(TxHash(tx), ExtractValue(tx.outputs[1]))
              /\ Len(r.amounts) = Len(r.keys)
              /\ \A i \in DOMAIN r.keys :
                   r.deposits[r.keys[i]].sweptAt = Uint32OfTimestamp(now)
         /\ \A w \in Wallets :
              (sweeps[WalletOf(tx)] = ZeroHash /\ sweeps[w] = ZeroHash) =>
                LET q == Outcome(PaidTo(tx, w), p) IN
                /\ q.err = r.err
                /\ q.deposits = r.deposits
                /\ q.depositors = r.depositors
                /\ q.amounts = r.amounts

\* A sweep that pays wallet 2 succeeds with the deposit of outpoint (1, 0),
\* which can only be revealed for wallet 1: it marks the deposit swept,
\* credits it and sets the pointer of wallet 2.
C38_Witness ==
    \E tx \in SweepTxs : \E p \in PreviousSweepClaims(tx) :
      LET r == Outcome(tx, p) IN
      /\ r.err = OK
      /\ WalletOf(tx) = 2
      /\ r.keys = <<DepositKey(1, 0)>>
      /\ RevealWallets(DepositKey(1, 0)) = {1}
      /\ r.depositors = <<deposits[DepositKey(1, 0)].depositor>>
      /\ r.sweeps[2] # sweeps[2]

\* Two inputs of tx spend the same outpoint, a registered deposit.
SameDepositTwice(tx) ==
    \E i, j \in DOMAIN tx.inputs :
      /\ i < j
      /\ tx.inputs[i] = tx.inputs[j]
      /\ LET in == parseTxInputAt(tx.inputs[i]) IN
         DepositAt(deposits,
                   DepositKey(in.inputTxHash, in.inputTxIndex)).revealedAt
           # 0

\* C39: a sweep of a transaction with two inputs that spend the same
\* registered deposit is rejected and leaves the deposit as it was, and no
\* successful sweep counts a deposit twice in its input value or credits.
C39_DuplicateInputRejected ==
    \A tx \in SweepTxs : \A p \in PreviousSweepClaims(tx) :
      LET r == Outcome(tx, p) IN
      /\ SameDepositTwice(tx) =>
           /\ r.err # OK
           /\ r.deposits = deposits
           /\ r.amounts = <<>>
      /\ r.err = OK =>
           \A i, j \in DOMAIN r.keys : i # j => r.keys[i] # r.keys[j]

\* Every raw transaction of the call was fetched from the Bitcoin client:
\* utxosWithRaw and mainUtxoWithRaw are the UTXOs of the call with the raw
\* transactions the client has for their hashes.
AllRawTransactionsFetched(s) ==
    /\ Len(s.utxosWithRaw) = Len(s.call.utxos)
    /\ \A i \in DOMAIN s.call.utxos :
         /\ s.call.utxos[i].transactionHash.digest
              \in DOMAIN ClientRawTransactions
         /\ s.utxosWithRaw[i] =
              WithRaw(s.call.utxos[i],
                [transactionHex |->
                   ClientRawTransactions[
                     s.call.utxos[i].transactionHash.digest]])
    /\ Len(s.mainUtxoWithRaw) = Len(s.call.mainUtxo)
    /\ \A i \in DOMAIN s.call.mainUtxo :
         s.mainUtxoWithRaw[i] =
           WithRaw(s.call.mainUtxo[i],
             [transactionHex |->
                ClientRawTransactions[
                  s.call.mainUtxo[i].transactionHash.digest]])

\* The transaction is the one assembleDepositSweepTransaction returns for
\* the arguments of the call and the fetched raw transactions, and every
\* input of it is signed.
AssembledAndSigned(s, transaction) ==
    LET r == SubmissionAssembly(s) IN
    /\ r.err = OK
    /\ s.assembled = r.returned
    /\ transaction = r.returned[1].rawTransaction
    /\ Len(transaction.ins) = Len(s.call.utxos) + Len(s.call.mainUtxo)
    /\ \A i \in DOMAIN transaction.ins :
         transaction.ins[i].script # <<>> \/ transaction.ins[i].witness # <<>>

\* C34: a call of submitDepositSweepTransaction that returned has
\* broadcast one transaction, the assembled and signed transaction, and a
\* call that has not returned has broadcast nothing; a transaction is
\* broadcast only in the step in which the call returns, after all raw
\* transactions were fetched and the transaction was assembled and signed,
\* so that a call that fails in a fetch or in the assembly broadcasts
\* nothing.
C34_BroadcastAfterAssembly ==
    /\ [](submitting # <<>> =>
          LET s == submitting[1] IN
          /\ s.pc # "returned" => broadcastLog = <<>> /\ s.returned = <<>>
          /\ s.pc = "returned" =>
               /\ Len(broadcastLog) = 1
               /\ AllRawTransactionsFetched(s)
               /\ AssembledAndSigned(s, broadcastLog[1])
               /\ s.returned =
                    << [transactionHash |-> s.assembled[1].transactionHash,
                        newMainUtxo |-> s.assembled[1].newMainUtxo] >>)
    /\ [][broadcastLog' # broadcastLog =>
            /\ submitting # <<>>
            /\ submitting[1].pc = "running"
            /\ AllRawTransactionsFetched(submitting[1])
            /\ submitting[1].bitcoinNetwork # <<>>
            /\ submitting[1].assembled # <<>>
            /\ broadcastLog' =
                 Append(broadcastLog, submitting[1].assembled[1].rawTransaction)
            /\ submitting'[1].pc = "returned"]_vars

\* A call with a main UTXO and two deposit UTXOs returned after its
\* transaction of three inputs was broadcast.
C34_Witness ==
    /\ submitting # <<>>
    /\ submitting[1].pc = "returned"
    /\ submitting[1].call.mainUtxo # <<>>
    /\ Len(submitting[1].call.utxos) = 2
    /\ Len(broadcastLog) = 1
    /\ Len(broadcastLog[1].ins) = 3

\* A submitted proof is the proof assembled for the transaction hash of
\* the call over the difficulty factor of the Bridge, with the decomposed
\* raw transaction the Bitcoin client has for the hash and the main UTXO
\* and vault of the call.
SubmittedFrom(p, submission) ==
    /\ p.confirmations = <<TxProofDifficultyFactor>>
    /\ p.proof = << assembleTransactionProof(p.call.transactionHash,
                                             TxProofDifficultyFactor) >>
    /\ p.call.transactionHash.digest \in DOMAIN ClientRawTransactions
    /\ p.rawTransaction =
         << [transactionHex |->
               ClientRawTransactions[p.call.transactionHash.digest]] >>
    /\ submission.sweepProof = p.proof[1]
    /\ submission.sweepTx =
         [inputs |->
            ClientRawTransactions[p.call.transactionHash.digest].inputs,
          outputs |->
            ClientRawTransactions[p.call.transactionHash.digest].outputs]
    /\ submission.mainUtxo = p.call.mainUtxo
    /\ submission.vault = p.call.vault

\* C35: a call of submitDepositSweepProof that returned has submitted one
\* proof to the Bridge, and a call that has not returned has submitted
\* nothing; the proof is submitted only in the step in which the call
\* returns, after the difficulty factor was read, the proof assembled and
\* the raw transaction fetched, and with the main UTXO and the vault of
\* the call, so that a call that fails in an earlier step submits nothing.
C35_ProofSubmittedOnce ==
    /\ [](proving # <<>> =>
          LET p == proving[1] IN
          /\ p.pc # "returned" => depositSweepProofLog = <<>>
          /\ p.pc = "returned" =>
               /\ Len(depositSweepProofLog) = 1
               /\ SubmittedFrom(p, depositSweepProofLog[1]))
    /\ [][depositSweepProofLog' # depositSweepProofLog =>
            /\ proving # <<>>
            /\ proving[1].pc = "running"
            /\ proving[1].confirmations # <<>>
            /\ proving[1].proof # <<>>
            /\ proving[1].rawTransaction # <<>>
            /\ Len(depositSweepProofLog') = Len(depositSweepProofLog) + 1
            /\ proving'[1].pc = "returned"]_vars

\* A call with a main UTXO and a vault returned after its proof was
\* submitted with both.
C35_Witness ==
    /\ proving # <<>>
    /\ proving[1].pc = "returned"
    /\ proving[1].call.vault # <<>>
    /\ proving[1].call.mainUtxo.value = 2
    /\ Len(depositSweepProofLog) = 1
    /\ depositSweepProofLog[1].vault = proving[1].call.vault
    /\ depositSweepProofLog[1].mainUtxo = proving[1].call.mainUtxo

====
